---- MODULE Spec2Model ----
(***************************************************************************)
(* Egress control and audit layer of osint_posture: the NetworkPolicy      *)
(* guard, the NetworkLedger, the guarded HttpClient and DnsClient and the  *)
(* AsyncRateLimiter, for one run with sequential callers.                  *)
(*                                                                         *)
(* Strings are sequences of one-character strings, so that lower(),        *)
(* rstrip(".") and endswith() are computed as the code computes them.      *)
(* The clock (time.monotonic()) is an integer number of seconds.           *)
(***************************************************************************)
EXTENDS Integers, Sequences, FiniteSets, TLC

\* ------------------------------------------------------------------ bounds
MaxTicks == 2           \* the clock advances at most this many times
MaxCeiling == 2         \* the HTTP ceilings of a run are drawn from 1..MaxCeiling
MaxDnsCeiling == 2      \* max_target_dns_queries is drawn from 1..MaxDnsCeiling
MaxLedger == 2          \* a DNS lookup starts only while the ledger is shorter
MaxBytes == 3           \* max_bytes_per_response of the runs explored
MaxOps == 3             \* operations are counted up to this many

\* --------------------------------------------------------------- strings
LowerChar(c) ==
    CASE c = "T" -> "t"
      [] c = "C" -> "c"
      [] c = "W" -> "w"
      [] OTHER -> c

\* str.lower()
Lower(s) == [i \in 1..Len(s) |-> LowerChar(s[i])]

\* str.endswith(suffix)
EndsWith(s, suffix) ==
    /\ Len(suffix) <= Len(s)
    /\ SubSeq(s, Len(s) - Len(suffix) + 1, Len(s)) = suffix

\* str.rstrip("."): every trailing dot is removed
RECURSIVE RStripDot(_)
RStripDot(s) ==
    IF Len(s) > 0 /\ s[Len(s)] = "."
    THEN RStripDot(SubSeq(s, 1, Len(s) - 1))
    ELSE s

\* str.upper() on the method and record-type names that occur
Upper(m) ==
    CASE m = "get" -> "GET"
      [] m = "head" -> "HEAD"
      [] m = "post" -> "POST"
      [] m = "txt" -> "TXT"
      [] m = "mx" -> "MX"
      [] m = "a" -> "A"
      [] OTHER -> m

\* ---------------------------------------------------------- configuration
\* RunConfig.domain as the operator typed it: "T.c"
ConfigDomain == <<"T", ".", "c">>

\* NetworkPolicy.domain: config.domain.lower()
domain == Lower(ConfigDomain)

Modes == {"passive", "low-noise"}
DnsPolicies == {"none", "minimal", "full"}

\* ------------------------------------------------------------- the inputs
\* URLs, given by the host part urlparse() finds in them ("" when the URL has none)
ApexUrl == <<"t", ".", "c">>
UpperUrl == <<"T", ".", "C">>
SubUrl == <<"w", ".", "t", ".", "c">>
LookalikeUrl == <<"x", "t", ".", "c">>
EvilUrl == <<"e", ".", "o">>
NoHostUrl == <<>>

\* the URLs whose host is the assessment domain or a subdomain of it
InScopeUrls == {ApexUrl, UpperUrl, SubUrl}
\* the URLs whose host is not
OffDomainUrls == {LookalikeUrl, EvilUrl, NoHostUrl}
Urls == InScopeUrls \cup OffDomainUrls

Methods == {"GET", "HEAD", "POST", "head"}

\* addresses getaddrinfo may return, one of each class ipaddress tells apart
PublicIp == "93.184.216.34"
PrivateIp == "10.0.0.5"
LoopbackIp == "127.0.0.1"
LinkLocalIp == "169.254.10.1"

\* ipaddress: is_private holds of the loopback and link-local blocks too
is_private(ip) == ip \in {PrivateIp, LoopbackIp, LinkLocalIp}
is_loopback(ip) == ip = LoopbackIp
is_link_local(ip) == ip = LinkLocalIp

\* getaddrinfo was not called
NoLookup == [oserror |-> FALSE, infos |-> <<>>]

\* what socket.getaddrinfo does for a host: it raises OSError, or returns infos
Resolutions ==
    { [oserror |-> TRUE, infos |-> <<>>],
      [oserror |-> FALSE, infos |-> <<PublicIp>>],
      [oserror |-> FALSE, infos |-> <<LoopbackIp>>],
      [oserror |-> FALSE, infos |-> <<PrivateIp>>],
      [oserror |-> FALSE, infos |-> <<PublicIp, PrivateIp>>],
      [oserror |-> FALSE, infos |-> <<LinkLocalIp, PublicIp>>] }

\* DNS queries: the names and record types callers ask for
DmarcLabel == <<"_", "d", "m", "a", "r", "c", ".">>
ApexName == <<"t", ".", "c">>
RootedUpperName == <<"T", ".", "C", ".">>
DmarcName == DmarcLabel \o ApexName
SubName == <<"w", ".", "t", ".", "c">>
QueryNames == {ApexName, RootedUpperName, DmarcName, SubName}
RecordTypes == {"TXT", "MX", "A", "txt"}

\* what dns.resolver.resolve does: it raises, or returns the answers
ResolverOutcomes ==
    { [raises |-> TRUE, answers |-> <<>>],
      [raises |-> FALSE, answers |-> <<"v=spf1 -all">>] }

\* what the transport does on one attempt: the chunks of the body it delivers,
\* and the number of chunks after which it raises (-1: it does not raise)
TransportScripts ==
    { [chunks |-> <<>>, fails_after |-> 0],
      [chunks |-> <<1, 1>>, fails_after |-> 1],
      [chunks |-> <<>>, fails_after |-> -1],
      [chunks |-> <<MaxBytes>>, fails_after |-> -1],
      [chunks |-> <<MaxBytes + 1>>, fails_after |-> -1],
      [chunks |-> <<1, MaxBytes>>, fails_after |-> -1] }

\* the length of the per-minute window, in seconds
Window == 60

\* the clock advances by one of these between two steps
Delays == {30}
Horizon == MaxTicks * 30

\* ------------------------------------------------------------------ state
VARIABLES
    \* NetworkPolicy: configuration
    mode, dns_policy,
    max_target_http_requests_total, max_target_http_per_host,
    max_target_http_per_minute, max_redirects, max_bytes_per_response,
    max_target_dns_queries,
    \* NetworkPolicy: counters
    target_http_total, target_http_per_host, target_dns_total,
    minute_window_start, minute_count,
    \* time.monotonic()
    now,
    \* NetworkLedger.entries
    entries,
    \* HttpClient: retries, and the request in flight
    retries, http,
    \* AsyncRateLimiter
    interval, next_time,
    \* calls made to the wrapped transport (per host) and to the resolver
    stream_calls, resolver_calls,
    \* len(content) of the attempt the client made last: the bytes of the
    \* body it received
    content,
    \* what the last operation returned or raised to its caller
    ret,
    \* the calls callers have made to HttpClient.request and to
    \* DnsClient.resolve_records, where the run counts them
    operations,
    \* the times at which calls of AsyncRateLimiter.wait() returned, in order
    releases,
    \* concurrent callers of HttpClient.request: where each task is
    tasks,
    \* AsyncRateLimiter._lock: the task that holds it, and the tasks queued
    \* on it in the order they asked
    lock, waiters,
    \* run_pipeline: where the run is, the module results, the exception
    \* that is propagating, and the files the finally block wrote
    pipeline,
    \* the times at which enforce_http_request approved a target request
    approvals

configVars ==
    <<mode, dns_policy, max_target_http_requests_total,
      max_target_http_per_host, max_target_http_per_minute, max_redirects,
      max_bytes_per_response, max_target_dns_queries, retries, interval>>
httpCounters ==
    <<target_http_total, target_http_per_host, minute_window_start, minute_count>>
clientVars == <<entries, http, next_time, stream_calls, resolver_calls, content>>
limiterVars == <<releases, tasks, lock, waiters>>
runVars == <<pipeline, approvals>>
vars ==
    <<configVars, httpCounters, target_dns_total, now, clientVars, ret,
      operations, limiterVars, runVars>>

\* ------------------------------------------------------- NetworkPolicy
\* the texts of the NetworkPolicyError each rule raises
ErrOffDomainHead == "off-domain HEAD requests are blocked in low-noise mode"
ErrPassive == "target HTTP is disabled in passive mode"
ErrRedirects == "redirects must remain disabled for target HTTP"
ErrMethod == "only HEAD/GET are allowed for target HTTP"
ErrTotal == "target HTTP total budget exceeded"
ErrPerHost == "target HTTP per-host budget exceeded for"
ErrPerMinute == "target HTTP per-minute budget exceeded"
ErrScope == "host outside target domain scope"
ErrResolve == "failed to resolve host"
ErrNonPublic == "blocked target HTTP to non-public IP"
ErrDnsNone == "DNS policy is none; DNS queries are disabled"
ErrDnsBudget == "target DNS query budget exceeded"
ErrDnsMinimal == "DNS query blocked by minimal policy"
ErrByteCap == "response byte cap exceeded"
NoError == "none"

\* urlparse(url).hostname or "": the host of the URL, lower-cased by urlparse
urlparse_hostname(url) == Lower(url)

\* (faulty variant: target HTTP is allowed whatever the mode)
allow_target_http_AnyMode == TRUE

allow_target_http == mode = "low-noise"

\* (faulty variant: the suffix is compared without the dot before it)
HostInDomain_NoDot(host) == host = domain \/ EndsWith(host, domain)

\* host == self.domain or host.endswith(f".{self.domain}")
HostInDomain(host) == host = domain \/ EndsWith(host, <<".">> \o domain)

classify_http(url) ==
    LET host == Lower(urlparse_hostname(url))
    IN  IF HostInDomain(host) THEN "target_http" ELSE "third_party_http"

\* defaultdict(int): the count of a host, 0 for a host that is no key yet
PerHostCount(host) ==
    IF host \in DOMAIN target_http_per_host THEN target_http_per_host[host] ELSE 0

\* (faulty variant: the window is reset only after more than 60 seconds)
WindowExpired_Strict == now - minute_window_start > Window

\* (faulty variant: the window is reset after 30 seconds)
WindowExpired_HalfMinute == now - minute_window_start >= 30

\* now - self._minute_window_start >= 60
WindowExpired == now - minute_window_start >= Window

\* self._minute_count as the per-minute check reads it, after the reset
MinuteCountAtCheck == IF WindowExpired THEN 0 ELSE minute_count

\* (faulty variant: one request more than the ceiling is let through)
TotalBudgetSpent_OffByOne == target_http_total > max_target_http_requests_total

\* self.target_http_total >= self.max_target_http_requests_total
TotalBudgetSpent == target_http_total >= max_target_http_requests_total

\* (faulty variant: one request more than the ceiling is let through)
PerHostBudgetSpent_OffByOne(host) == PerHostCount(host) > max_target_http_per_host

\* self.target_http_per_host[host] >= self.max_target_http_per_host
PerHostBudgetSpent(host) == PerHostCount(host) >= max_target_http_per_host

\* self._minute_count >= self.max_target_http_per_minute
MinuteBudgetSpent == MinuteCountAtCheck >= max_target_http_per_minute

\* (faulty variant: only a positive ceiling counts as redirects enabled)
RedirectsEnabled_PositiveOnly == max_redirects > 0

\* self.max_redirects != 0
RedirectsEnabled == max_redirects # 0

\* (faulty variant: POST is let through as well)
MethodAllowed_WithPost(method) == Upper(method) \in {"HEAD", "GET", "POST"}

\* method.upper() in {"HEAD", "GET"}
MethodAllowed(method) == Upper(method) \in {"HEAD", "GET"}

\* (faulty variant: an off-domain HEAD is blocked whatever the mode)
OffDomainHeadBlocked_AnyMode(method) == Upper(method) = "HEAD"

\* self.allow_target_http and method.upper() == "HEAD"
OffDomainHeadBlocked(method) == allow_target_http /\ Upper(method) = "HEAD"

\* (faulty variant: the per-host budget is checked before the total budget)
ChecksBeforeResolution_PerHostFirst(method, host) ==
    IF ~allow_target_http THEN ErrPassive
    ELSE IF RedirectsEnabled THEN ErrRedirects
    ELSE IF ~MethodAllowed(method) THEN ErrMethod
    ELSE IF PerHostBudgetSpent(host) THEN ErrPerHost
    ELSE IF TotalBudgetSpent THEN ErrTotal
    ELSE IF MinuteBudgetSpent THEN ErrPerMinute
    ELSE IF ~HostInDomain(host) THEN ErrScope
    ELSE NoError

\* the checks of enforce_http_request on a target_http request that come
\* before the resolution, in the order of the code: the error of the first
\* one that fails, or NoError
ChecksBeforeResolution(method, host) ==
    IF ~allow_target_http THEN ErrPassive
    ELSE IF RedirectsEnabled THEN ErrRedirects
    ELSE IF ~MethodAllowed(method) THEN ErrMethod
    ELSE IF TotalBudgetSpent THEN ErrTotal
    ELSE IF PerHostBudgetSpent(host) THEN ErrPerHost
    ELSE IF MinuteBudgetSpent THEN ErrPerMinute
    ELSE IF ~HostInDomain(host) THEN ErrScope
    ELSE NoError

\* (faulty variant: only the first address returned is looked at)
PublicResolutionError_FirstOnly(res) ==
    IF res.oserror THEN ErrResolve
    ELSE IF Len(res.infos) > 0 /\ is_private(res.infos[1])
         THEN ErrNonPublic
         ELSE NoError

\* _assert_public_resolution: the error it raises on what getaddrinfo did
PublicResolutionError(res) ==
    IF res.oserror THEN ErrResolve
    ELSE IF \E i \in 1..Len(res.infos) :
                \/ is_private(res.infos[i])
                \/ is_loopback(res.infos[i])
                \/ is_link_local(res.infos[i])
         THEN ErrNonPublic
         ELSE NoError

\* enforce_http_request calls getaddrinfo only for a target request that
\* passed every earlier check
CallsGetaddrinfo(method, url) ==
    /\ classify_http(url) = "target_http"
    /\ ChecksBeforeResolution(method, Lower(urlparse_hostname(url))) = NoError

\* the outcomes of getaddrinfo a call of enforce_http_request can meet
LookupsOf(method, url) ==
    IF CallsGetaddrinfo(method, url) THEN Resolutions ELSE {NoLookup}

\* the error enforce_http_request raises for (method, url), or NoError
HttpError(method, url, res) ==
    IF classify_http(url) # "target_http"
    THEN IF OffDomainHeadBlocked(method)
         THEN ErrOffDomainHead
         ELSE NoError
    ELSE LET early == ChecksBeforeResolution(method, Lower(urlparse_hostname(url)))
         IN  IF early # NoError THEN early ELSE PublicResolutionError(res)

\* the errors raised before the per-host counter is read (line 120)
BeforePerHostRead == {ErrPassive, ErrRedirects, ErrMethod, ErrTotal}
\* (faulty variant: every rejection but that of passive mode comes after the
\* window was looked at)
BeforeWindow_OnlyPassive == {ErrPassive}

\* the errors raised before the window is looked at (line 124)
BeforeWindow == BeforePerHostRead \cup {ErrPerHost}

\* (faulty variant: reading the count of a host starts it again from zero)
PerHostRead_Fresh(host) ==
    [h \in DOMAIN target_http_per_host \cup {host} |->
        IF h = host THEN 0 ELSE PerHostCount(h)]

\* the per-host map once the count of host was read (defaultdict inserts the key)
PerHostRead(host) ==
    [h \in DOMAIN target_http_per_host \cup {host} |-> PerHostCount(h)]

\* (faulty variant: the counters are incremented before the scope and resolution
\* checks, so that a request these reject is debited)
enforce_http_request_EarlyDebit(url, err) ==
    LET host == Lower(urlparse_hostname(url))
        target == classify_http(url) = "target_http"
        readsPerHost == target /\ err \notin BeforePerHostRead
        readsWindow == target /\ err \notin BeforeWindow
        debited == readsWindow /\ err # ErrPerMinute
    IN  /\ target_http_total' =
            IF debited THEN target_http_total + 1 ELSE target_http_total
        /\ target_http_per_host' =
            IF debited
            THEN [PerHostRead(host) EXCEPT ![host] = @ + 1]
            ELSE IF readsPerHost THEN PerHostRead(host)
            ELSE target_http_per_host
        /\ minute_window_start' =
            IF readsWindow /\ WindowExpired THEN now ELSE minute_window_start
        /\ minute_count' =
            IF debited THEN MinuteCountAtCheck + 1
            ELSE IF readsWindow THEN MinuteCountAtCheck
            ELSE minute_count

\* enforce_http_request: what it does to the guard when its outcome is err.
\* The caller gets classify_http(url) when err is NoError and err otherwise.
enforce_http_request(url, err) ==
    LET host == Lower(urlparse_hostname(url))
        target == classify_http(url) = "target_http"
        readsPerHost == target /\ err \notin BeforePerHostRead
        readsWindow == target /\ err \notin BeforeWindow
        approved == target /\ err = NoError
    IN  /\ target_http_total' =
            IF approved THEN target_http_total + 1 ELSE target_http_total
        /\ target_http_per_host' =
            IF approved
            THEN [PerHostRead(host) EXCEPT ![host] = @ + 1]
            ELSE IF readsPerHost THEN PerHostRead(host)
            ELSE target_http_per_host
        /\ minute_window_start' =
            IF readsWindow /\ WindowExpired THEN now ELSE minute_window_start
        /\ minute_count' =
            IF approved THEN MinuteCountAtCheck + 1
            ELSE IF readsWindow THEN MinuteCountAtCheck
            ELSE minute_count

\* what a call returned: the operation, the error raised (NoError when it
\* returned) and the value returned
Returned(op, value) == [op |-> op, error |-> NoError, value |-> value]
Raised(op, error) == [op |-> op, error |-> error, value |-> "none"]

\* a caller calls policy.enforce_http_request(method, url) directly
GuardHttpCall(method, url, res) ==
    /\ http.pc = "idle"
    /\ \E err \in {HttpError(method, url, res)} :
        /\ enforce_http_request(url, err)
        /\ ret' = IF err = NoError
                  THEN Returned("enforce_http_request", classify_http(url))
                  ELSE Raised("enforce_http_request", err)
    /\ UNCHANGED <<configVars, target_dns_total, now, clientVars>>

\* time passes
Tick ==
    /\ \E d \in Delays :
        /\ now + d <= Horizon
        /\ now' = now + d
    /\ UNCHANGED <<configVars, httpCounters, target_dns_total, clientVars, ret>>

\* (faulty variant: the A record of the domain is on the list too)
MinimalAllowed_WithA ==
    { <<domain, "TXT">>, <<DmarcLabel \o domain, "TXT">>, <<domain, "MX">>,
      <<domain, "A">> }

\* enforce_dns_query: the pairs the minimal policy allows
MinimalAllowed ==
    { <<domain, "TXT">>, <<DmarcLabel \o domain, "TXT">>, <<domain, "MX">> }

\* (faulty variant: one query more than the ceiling is let through)
DnsBudgetSpent_OffByOne == target_dns_total > max_target_dns_queries

\* self.target_dns_total >= self.max_target_dns_queries
DnsBudgetSpent == target_dns_total >= max_target_dns_queries

\* (faulty variant: the allow-list is applied whatever the policy)
PairBlocked_AnyPolicy(q, rt) == <<q, rt>> \notin MinimalAllowed

\* the minimal policy is on and the normalised pair is not on its list
PairBlocked(q, rt) == dns_policy = "minimal" /\ <<q, rt>> \notin MinimalAllowed

\* (faulty variant: the none policy is not checked)
DnsError_NoneUnchecked(query_name, record_type) ==
    LET q == RStripDot(Lower(query_name))
        rt == Upper(record_type)
    IN  IF DnsBudgetSpent THEN ErrDnsBudget
        ELSE IF PairBlocked(q, rt) THEN ErrDnsMinimal
        ELSE NoError

\* the error enforce_dns_query raises for (query_name, record_type), or NoError
DnsError(query_name, record_type) ==
    LET q == RStripDot(Lower(query_name))
        rt == Upper(record_type)
    IN  IF dns_policy = "none" THEN ErrDnsNone
        ELSE IF DnsBudgetSpent THEN ErrDnsBudget
        ELSE IF PairBlocked(q, rt) THEN ErrDnsMinimal
        ELSE NoError

\* enforce_dns_query: what it does to the guard when its outcome is err
enforce_dns_query(err) ==
    target_dns_total' = IF err = NoError THEN target_dns_total + 1 ELSE target_dns_total

\* a caller calls policy.enforce_dns_query(query_name, record_type) directly
GuardDnsCall(query_name, record_type) ==
    /\ http.pc = "idle"
    /\ \E err \in {DnsError(query_name, record_type)} :
        /\ enforce_dns_query(err)
        /\ ret' = IF err = NoError
                  THEN Returned("enforce_dns_query", "none")
                  ELSE Raised("enforce_dns_query", err)
    /\ UNCHANGED <<configVars, httpCounters, now, clientVars>>

\* NetworkPolicy.budgets()
budgets ==
    [allow_target_http |-> allow_target_http,
     dns_policy |-> dns_policy,
     max_target_http_requests_total |-> max_target_http_requests_total,
     max_target_http_per_host |-> max_target_http_per_host,
     max_target_http_per_minute |-> max_target_http_per_minute,
     max_redirects |-> max_redirects,
     max_bytes_per_response |-> max_bytes_per_response,
     max_target_dns_queries |-> max_target_dns_queries]

\* (faulty variant: the call starts a new minute window)
BudgetsCall_ResetsWindow ==
    /\ http.pc = "idle"
    /\ ret' = Returned("budgets", budgets)
    /\ minute_count' = 0
    /\ UNCHANGED <<configVars, target_http_total, target_http_per_host,
                   minute_window_start, target_dns_total, now, clientVars>>

\* a caller calls policy.budgets()
BudgetsCall ==
    /\ http.pc = "idle"
    /\ ret' = Returned("budgets", budgets)
    /\ UNCHANGED <<configVars, httpCounters, target_dns_total, now, clientVars>>

\* ------------------------------------------------------- NetworkLedger
\* (faulty variant: the new entry is put in front of the others)
LedgerAdd_Prepend(entry) == entries' = <<entry>> \o entries

\* NetworkLedger.add: one NetworkLedgerEntry appended. An entry is modelled by
\* its type, destination_host, status, error, bytes_out, bytes_in and success
\* fields,
\* and for a DNS entry its record_type.
LedgerAdd(entry) == entries' = Append(entries, entry)

\* (faulty variant: every entry is marked successful)
DnsEntry_AlwaysOk(query_name, record_type, success, error) ==
    [type |-> "target_dns", destination_host |-> query_name,
     record_type |-> Upper(record_type),
     status |-> "ok", error |-> error, bytes_out |-> 0, bytes_in |-> 0,
     success |-> TRUE]

\* NetworkLedger.totals(): counts, the number of entries of each type present
totals_counts ==
    [t \in {entries[i].type : i \in 1..Len(entries)} |->
        Cardinality({i \in 1..Len(entries) : entries[i].type = t})]
\* NetworkLedger.totals(): total_entries
total_entries == Len(entries)

\* (faulty variant: the value is stored, not added to what is there)
Bump_Overwrite(f, type, k) ==
    [x \in DOMAIN f \cup {type} |-> IF x = type THEN k ELSE f[x]]

\* d[type] += k on a defaultdict(int)
Bump(f, type, k) ==
    [x \in DOMAIN f \cup {type} |->
        (IF x \in DOMAIN f THEN f[x] ELSE 0) + (IF x = type THEN k ELSE 0)]

RECURSIVE Tally(_, _)
\* the loop of totals() over the first n entries of es
Tally(es, n) ==
    IF n = 0
    THEN [counts |-> <<>>, bytes_out |-> <<>>, bytes_in |-> <<>>]
    ELSE LET before == Tally(es, n - 1)
         IN  [counts |-> Bump(before.counts, es[n].type, 1),
              bytes_out |-> Bump(before.bytes_out, es[n].type, es[n].bytes_out),
              bytes_in |-> Bump(before.bytes_in, es[n].type, es[n].bytes_in)]

\* NetworkLedger.totals()
totals ==
    LET t == Tally(entries, Len(entries))
    IN  [counts |-> t.counts, bytes_out |-> t.bytes_out,
         bytes_in |-> t.bytes_in, total_entries |-> Len(entries)]

\* NetworkLedger.to_dict()
to_dict == [entries |-> entries, totals |-> totals]

\* the entries a caller hands to NetworkLedger.add itself
DirectEntries ==
    { [type |-> "third_party_http", destination_host |-> <<"c", ".", "s">>,
       status |-> "None", error |-> NoError, bytes_out |-> b, bytes_in |-> 0,
       success |-> "none"] : b \in {0, 2} }

\* a caller calls ledger.add(...)
LedgerAddCall(entry) ==
    /\ http.pc = "idle"
    /\ Len(entries) < MaxLedger
    /\ LedgerAdd(entry)
    /\ ret' = Returned("add", "none")
    /\ UNCHANGED <<configVars, httpCounters, target_dns_total, now, http,
                   next_time, stream_calls, resolver_calls, content>>

\* a caller calls ledger.totals()
TotalsCall ==
    /\ http.pc = "idle"
    /\ ret' = Returned("totals", totals)
    /\ UNCHANGED <<configVars, httpCounters, target_dns_total, now, clientVars>>

\* a caller calls ledger.to_dict()
ToDictCall ==
    /\ http.pc = "idle"
    /\ ret' = Returned("to_dict", to_dict)
    /\ UNCHANGED <<configVars, httpCounters, target_dns_total, now, clientVars>>

\* the entry DnsClient.resolve_records adds
DnsEntry(query_name, record_type, success, error) ==
    [type |-> "target_dns", destination_host |-> query_name,
     record_type |-> Upper(record_type),
     status |-> IF success THEN "ok" ELSE "error", error |-> error,
     bytes_out |-> 0, bytes_in |-> 0, success |-> success]

\* the entry HttpClient.request adds for one attempt; callers pass neither
\* headers nor a JSON body, so bytes_out is 0
HttpEntry(category, host, method, status, error, bytes_in) ==
    [type |-> category, destination_host |-> host,
     status |-> status, error |-> error,
     bytes_out |-> 0, bytes_in |-> bytes_in, success |-> "none"]

\* ----------------------------------------------------------- DnsClient
\* the text of the exception dns.resolver.resolve raises
ErrLookup == "lookup failed"

\* (faulty variant: a rejection by the guard is raised to the caller)
DnsResult_Propagates(err, outcome) ==
    IF err # NoError THEN Raised("resolve_records", err)
    ELSE IF outcome.raises THEN Returned("resolve_records", <<>>)
    ELSE Returned("resolve_records", outcome.answers)

\* what resolve_records gives its caller: [] from both except clauses, the
\* record strings otherwise
DnsResult(err, outcome) ==
    IF err # NoError THEN Returned("resolve_records", <<>>)
    ELSE IF outcome.raises THEN Returned("resolve_records", <<>>)
    ELSE Returned("resolve_records", outcome.answers)

\* (faulty variant: the resolver is called for a rejected query too)
resolve_records_CallsAnyway(query_name, record_type, outcome) ==
    /\ http.pc = "idle"
    /\ Len(entries) < MaxLedger
    /\ \E err \in {DnsError(query_name, record_type)} :
        /\ enforce_dns_query(err)
        /\ ret' = DnsResult(err, outcome)
        /\ IF err # NoError
           THEN /\ LedgerAdd(DnsEntry(query_name, record_type, FALSE, err))
                /\ resolver_calls' = resolver_calls + 1
           ELSE /\ resolver_calls' = resolver_calls + 1
                /\ IF outcome.raises
                   THEN LedgerAdd(DnsEntry(query_name, record_type, FALSE,
                                           ErrLookup))
                   ELSE LedgerAdd(DnsEntry(query_name, record_type, TRUE,
                                           NoError))
    /\ UNCHANGED <<configVars, httpCounters, now, http, next_time, stream_calls,
                   content>>

\* DnsClient.resolve_records(domain, record_type) with a policy and a ledger:
\* the guard, then the resolver, then the ledger entry of the finally block
resolve_records(query_name, record_type, outcome) ==
    /\ http.pc = "idle"
    /\ Len(entries) < MaxLedger
    /\ \E err \in {DnsError(query_name, record_type)} :
        /\ enforce_dns_query(err)
        /\ ret' = DnsResult(err, outcome)
        /\ IF err # NoError
           THEN /\ LedgerAdd(DnsEntry(query_name, record_type, FALSE, err))
                /\ resolver_calls' = resolver_calls
           ELSE /\ resolver_calls' = resolver_calls + 1
                /\ IF outcome.raises
                   THEN LedgerAdd(DnsEntry(query_name, record_type, FALSE,
                                           ErrLookup))
                   ELSE LedgerAdd(DnsEntry(query_name, record_type, TRUE,
                                           NoError))
    /\ UNCHANGED <<configVars, httpCounters, now, http, next_time, stream_calls,
                   content>>

\* ----------------------------------------------------- AsyncRateLimiter
\* AsyncRateLimiter.__init__: 60.0 / max(1, max_per_minute), in whole seconds
LimiterInterval(max_per_minute) ==
    60 \div (IF max_per_minute < 1 THEN 1 ELSE max_per_minute)

\* AsyncRateLimiter.wait() up to its sleep: True when it has to sleep
LimiterMustSleep == now < next_time

\* self._next_time = max(now, self._next_time) + self.interval, where now is
\* the time read on entry: slept tells whether that was before next_time
LimiterAdvance(slept) ==
    next_time' = (IF slept THEN next_time ELSE now) + interval

\* ---------------------------------------------------------- HttpClient
\* no request in flight
Idle == [pc |-> "idle"]

RECURSIVE SumTo(_, _)
\* the bytes of the first n chunks
SumTo(chunks, n) == IF n = 0 THEN 0 ELSE SumTo(chunks, n - 1) + chunks[n]

\* the chunks the transport delivers before it raises or ends the body
Delivered(script) ==
    IF script.fails_after >= 0 /\ script.fails_after < Len(script.chunks)
    THEN script.fails_after
    ELSE Len(script.chunks)

\* len(content) > self.policy.max_bytes_per_response after some chunk
CapExceeded(script) ==
    \E n \in 1..Delivered(script) : SumTo(script.chunks, n) > max_bytes_per_response

\* how one attempt ends: "cap" (the byte cap), "error" (the transport raised)
\* or "ok" (the body was read)
AttemptOutcome(script) ==
    IF CapExceeded(script) THEN "cap"
    ELSE IF script.fails_after >= 0 THEN "error"
    ELSE "ok"

\* len(content) when the attempt stops: the bytes read up to the chunk that
\* passes the cap, up to the failure of the transport, or the whole body
Received(script) ==
    IF CapExceeded(script)
    THEN SumTo(script.chunks,
               CHOOSE n \in 1..Delivered(script) :
                   /\ SumTo(script.chunks, n) > max_bytes_per_response
                   /\ \A k \in 1..(n - 1) :
                        SumTo(script.chunks, k) <= max_bytes_per_response)
    ELSE SumTo(script.chunks, Delivered(script))

ErrTransport == "transport error"

\* (faulty variant: a rejected request goes on to the retry loop)
Admission_WaitsAnyway(method, url, err) ==
    [pc |-> "wait", method |-> Upper(method), url |-> url,
     category |-> classify_http(url), attempt |-> 0, last_exc |-> NoError]

\* the request in flight once the guard has answered: none when it raised,
\* otherwise the request at the first turn of the retry loop
Admission(method, url, err) ==
    IF err # NoError THEN http
    ELSE [pc |-> "wait", method |-> Upper(method), url |-> url,
          category |-> classify_http(url), attempt |-> 0, last_exc |-> NoError]

\* HttpClient.request(method, url) up to the retry loop: the guard is asked,
\* and its rejection goes to the caller
request(method, url, res) ==
    /\ http.pc = "idle"
    /\ Len(entries) < MaxLedger
    /\ \E err \in {HttpError(Upper(method), url, res)} :
        /\ enforce_http_request(url, err)
        /\ http' = Admission(method, url, err)
        /\ ret' = IF err # NoError
                  THEN Raised("request", err)
                  ELSE Returned("request", "admitted")
    /\ UNCHANGED <<configVars, target_dns_total, now, entries, next_time,
                   stream_calls, resolver_calls, content>>

\* await self.rate_limiter.wait(), when the mark is not in the future
LimiterPass ==
    /\ http.pc = "wait"
    /\ ~LimiterMustSleep
    /\ LimiterAdvance(FALSE)
    /\ http' = [http EXCEPT !.pc = "send"]
    /\ UNCHANGED <<configVars, httpCounters, target_dns_total, now, entries,
                   stream_calls, resolver_calls, content, ret>>

\* await self.rate_limiter.wait(), when it has to sleep until the mark
LimiterSleep ==
    /\ http.pc = "wait"
    /\ LimiterMustSleep
    /\ http' = [http EXCEPT !.pc = "sleep"]
    /\ UNCHANGED <<configVars, httpCounters, target_dns_total, now, entries,
                   next_time, stream_calls, resolver_calls, content, ret>>

\* the sleep of wait() is over: the mark is advanced
LimiterWake ==
    /\ http.pc = "sleep"
    /\ now >= next_time
    /\ LimiterAdvance(TRUE)
    /\ http' = [http EXCEPT !.pc = "send"]
    /\ UNCHANGED <<configVars, httpCounters, target_dns_total, now, entries,
                   stream_calls, resolver_calls, content, ret>>

\* one more call of self._client.stream for the host
StreamCalled(host) ==
    stream_calls' =
        [h \in DOMAIN stream_calls \cup {host} |->
            (IF h \in DOMAIN stream_calls THEN stream_calls[h] ELSE 0)
            + (IF h = host THEN 1 ELSE 0)]

\* (faulty variant: the byte cap is handled like a transport error, with a
\* backoff and another attempt while retries remain)
Attempt_CapRetried(script) ==
    /\ http.pc = "send"
    /\ content' = Received(script)
    /\ StreamCalled(Lower(urlparse_hostname(http.url)))
    /\ \E outcome \in {AttemptOutcome(script)}, host \in {Lower(urlparse_hostname(http.url))} :
        CASE outcome = "ok" ->
                /\ LedgerAdd(HttpEntry(http.category, host, http.method, "200", NoError,
                                       SumTo(script.chunks, Len(script.chunks))))
                /\ http' = Idle
                /\ ret' = Returned("request", "response")
          [] outcome = "cap" ->
                /\ entries' = entries
                /\ http' = [http EXCEPT !.pc = "backoff", !.last_exc = ErrByteCap]
                /\ ret' = ret
          [] outcome = "error" ->
                /\ LedgerAdd(HttpEntry(http.category, host, http.method, "None",
                                       ErrTransport, 0))
                /\ http' = [http EXCEPT !.pc = "backoff", !.last_exc = ErrTransport]
                /\ ret' = ret
    /\ UNCHANGED <<configVars, httpCounters, target_dns_total, now, next_time,
                   resolver_calls>>

\* one attempt of the retry loop: self._client.stream(...) and the reading of
\* the body, to the ledger entry and the return, the raise or the backoff
Attempt(script) ==
    /\ http.pc = "send"
    /\ content' = Received(script)
    /\ StreamCalled(Lower(urlparse_hostname(http.url)))
    /\ \E outcome \in {AttemptOutcome(script)}, host \in {Lower(urlparse_hostname(http.url))} :
        CASE outcome = "ok" ->
                /\ LedgerAdd(HttpEntry(http.category, host, http.method, "200", NoError,
                                       SumTo(script.chunks, Len(script.chunks))))
                /\ http' = Idle
                /\ ret' = Returned("request", "response")
          [] outcome = "cap" ->
                /\ entries' = entries
                /\ http' = Idle
                /\ ret' = Raised("request", ErrByteCap)
          [] outcome = "error" ->
                /\ LedgerAdd(HttpEntry(http.category, host, http.method, "None",
                                       ErrTransport, 0))
                /\ http' = [http EXCEPT !.pc = "backoff", !.last_exc = ErrTransport]
                /\ ret' = ret
    /\ UNCHANGED <<configVars, httpCounters, target_dns_total, now, next_time,
                   resolver_calls>>

\* (faulty variant: the debit of a target request is given back when its attempts
\* are used up)
Backoff_Refund ==
    /\ http.pc = "backoff"
    /\ IF http.attempt < retries
       THEN /\ http' = [http EXCEPT !.pc = "wait", !.attempt = @ + 1]
            /\ ret' = ret
            /\ target_http_total' = target_http_total
       ELSE /\ http' = Idle
            /\ ret' = Raised("request", http.last_exc)
            /\ target_http_total' =
                IF http.category = "target_http"
                THEN target_http_total - 1 ELSE target_http_total
    /\ UNCHANGED <<configVars, target_http_per_host, minute_window_start,
                   minute_count, target_dns_total, now, entries,
                   next_time, stream_calls, resolver_calls, content>>

\* (faulty variant: one attempt more than retries + 1 is made)
AttemptsLeft_OneMore == http.attempt <= retries

\* for attempt in range(self.retries + 1): another turn of the loop is left
AttemptsLeft == http.attempt < retries

\* await asyncio.sleep(0.2 * (attempt + 1)) is over: the next attempt, or
\* raise last_exc when the attempts are used up
Backoff ==
    /\ http.pc = "backoff"
    /\ IF AttemptsLeft
       THEN /\ http' = [http EXCEPT !.pc = "wait", !.attempt = @ + 1]
            /\ ret' = ret
       ELSE /\ http' = Idle
            /\ ret' = Raised("request", http.last_exc)
    /\ UNCHANGED <<configVars, httpCounters, target_dns_total, now, entries,
                   next_time, stream_calls, resolver_calls, content>>

\* ------------------------------------------- concurrent callers (tasks)
\* the tasks that call HttpClient.request on the same client concurrently
Tasks == {"t1", "t2", "t3"}
NoTask == "none"

\* a task that has not called request yet
NotStarted == [pc |-> "start"]

\* wait() returned to its caller at the current time
WaitReturned == releases' = Append(releases, now)

\* (faulty variant: the budget violations are not raised while another task
\* is between its check and the end of its wait, as when the check and the
\* increments of two requests interleave)
GuardVerdict_Interleaved(t, method, url, res) ==
    IF /\ HttpError(method, url, res) \in {ErrTotal, ErrPerHost, ErrPerMinute}
       /\ \E u \in Tasks \ {t} : tasks[u].pc \in {"queued", "sleep"}
    THEN NoError
    ELSE HttpError(method, url, res)

\* what enforce_http_request answers to the task: the function has no await,
\* so its checks read the counters of the state in which it increments them
GuardVerdict(t, method, url, res) == HttpError(method, url, res)

\* async with self._lock, for a task that asks now: it has the lock at once
\* when nobody holds it and nobody is queued
LockFree == lock = NoTask /\ waiters = <<>>

\* the body of wait() from the read of the clock on, run by task t holding
\* the lock, up to its sleep or, when it does not sleep, to the release of
\* the lock; rec is the task's request, with the time at which the task
\* called and the time at which wait() returned to it (-1 until then)
WaitBody(t, rec) ==
    IF LimiterMustSleep
    THEN /\ tasks' = [tasks EXCEPT ![t] = [rec EXCEPT !.pc = "sleep"]]
         /\ lock' = t
         /\ UNCHANGED <<next_time, releases>>
    ELSE /\ LimiterAdvance(FALSE)
         /\ tasks' = [tasks EXCEPT ![t] = [rec EXCEPT !.pc = "released",
                                                     !.released_at = now]]
         /\ lock' = NoTask
         /\ WaitReturned

\* task t calls HttpClient.request(method, url): the guard, and when it
\* admits the request, wait() up to its first suspension
TaskRequest(t, method, url, res) ==
    /\ tasks[t].pc = "start"
    /\ \E err \in {GuardVerdict(t, Upper(method), url, res)} :
        /\ enforce_http_request(url, err)
        /\ LET rec == [pc |-> "queued", url |-> url, error |-> err,
                       asked |-> now, released_at |-> -1]
           IN  IF err # NoError
               THEN /\ tasks' = [tasks EXCEPT ![t] = [rec EXCEPT !.pc = "rejected"]]
                    /\ UNCHANGED <<lock, waiters, next_time, releases>>
               ELSE IF LockFree
               THEN /\ WaitBody(t, rec)
                    /\ UNCHANGED waiters
               ELSE /\ tasks' = [tasks EXCEPT ![t] = rec]
                    /\ waiters' = Append(waiters, t)
                    /\ UNCHANGED <<lock, next_time, releases>>
    /\ UNCHANGED <<configVars, target_dns_total, now, entries, http,
                   stream_calls, resolver_calls, content, ret, operations,
                   runVars>>

\* the lock was released and task t is the first of the queue: it resumes
\* inside wait() holding the lock
TaskGranted(t) ==
    /\ tasks[t].pc = "queued"
    /\ lock = NoTask
    /\ waiters # <<>>
    /\ Head(waiters) = t
    /\ waiters' = Tail(waiters)
    /\ WaitBody(t, tasks[t])
    /\ UNCHANGED <<configVars, httpCounters, target_dns_total, now, entries,
                   http, stream_calls, resolver_calls, content, ret, operations, runVars>>

\* the sleep of task t inside wait() is over: the mark is advanced, the lock
\* released and wait() returns
TaskWake(t) ==
    /\ tasks[t].pc = "sleep"
    /\ now >= next_time
    /\ LimiterAdvance(TRUE)
    /\ tasks' = [tasks EXCEPT ![t].pc = "released", ![t].released_at = now]
    /\ lock' = NoTask
    /\ WaitReturned
    /\ UNCHANGED <<configVars, httpCounters, target_dns_total, now, entries,
                   http, stream_calls, resolver_calls, content, ret, operations, runVars,
                   waiters>>

\* ----------------------------------------------------------- run_pipeline
\* run_pipeline has not been called
NotRun == [pc |-> "not_run"]

\* the modules of run_pipeline, in the order of its calls
ModuleOrder ==
    <<"scope_init", "dns_mail_profile", "passive_subdomains", "passive_users",
      "third_party_intel", "web_signals", "doc_signals">>

\* the modules run through _wrap_module, which calls the function inside its
\* try; the others are coroutine functions that run_pipeline calls itself,
\* handing the coroutine to _wrap_module_async
SyncModules == {"scope_init", "dns_mail_profile"}

\* the modules that are handed the HTTP client
HttpModules ==
    {"passive_subdomains", "passive_users", "third_party_intel", "web_signals",
     "doc_signals"}

\* the number of positional arguments run_pipeline passes to run() of each
\* module
ArgsPassed ==
    [scope_init |-> 2, dns_mail_profile |-> 3, passive_subdomains |-> 3,
     passive_users |-> 4, third_party_intel |-> 6, web_signals |-> 5,
     doc_signals |-> 5]

\* the parameters of run() of each module: those without a default, and all
ParamsRequired ==
    [scope_init |-> 2, dns_mail_profile |-> 2, passive_subdomains |-> 2,
     passive_users |-> 3, third_party_intel |-> 6, web_signals |-> 5,
     doc_signals |-> 4]
ParamsAccepted ==
    [scope_init |-> 2, dns_mail_profile |-> 2, passive_subdomains |-> 3,
     passive_users |-> 4, third_party_intel |-> 6, web_signals |-> 5,
     doc_signals |-> 4]

\* the call of run() binds its arguments; otherwise the call raises TypeError
\* before the body of the function or coroutine starts
BindsArguments(name) ==
    /\ ArgsPassed[name] >= ParamsRequired[name]
    /\ ArgsPassed[name] <= ParamsAccepted[name]

\* how the body of a module can end: it returns, it raises an Exception
\* (NetworkPolicyError is one), or it raises a BaseException that is not an
\* Exception (KeyboardInterrupt, asyncio.CancelledError)
ModuleOutcomes == {"ok", "exception", "base_exception"}

\* (faulty variant: leaving the try block ends the run without the finally
\* block)
Finally_Skipped == "raised"

\* where control goes when it leaves the try block of run_pipeline, by an
\* exception or by the return: to the finally block, which starts with
\* http.close()
Finally == "close"

\* run_pipeline is called: the clients are built and the try block entered
StartRun ==
    /\ pipeline.pc = "not_run"
    /\ pipeline' = [pc |-> "call", index |-> 1, modules |-> <<>>,
                    exc |-> "none", closed |-> FALSE, files |-> <<>>]
    /\ UNCHANGED <<configVars, httpCounters, target_dns_total, now, clientVars,
                   ret, operations, limiterVars, approvals>>

\* modules.append(result) and the write of its raw file, then the next
\* module; after the last one the synthesis and the reports, which use
\* neither the transport nor the ledger, and then the finally block
WithResult(status) ==
    [pipeline EXCEPT
        !.modules = Append(@, [module |-> ModuleOrder[pipeline.index],
                               status |-> status]),
        !.index = @ + 1,
        !.pc = IF pipeline.index < Len(ModuleOrder) THEN "call" ELSE Finally]

\* the exception leaves the try block
Propagating(exc) == [pipeline EXCEPT !.exc = exc, !.pc = Finally]

\* the call of the module's run(): inside _wrap_module for a synchronous
\* module, where a TypeError becomes an error result; in run_pipeline itself
\* for a coroutine function, where it leaves the try block
ModuleCall ==
    /\ pipeline.pc = "call"
    /\ LET name == ModuleOrder[pipeline.index]
       IN  pipeline' =
                IF BindsArguments(name)
                THEN [pipeline EXCEPT !.pc = "running"]
                ELSE IF name \in SyncModules
                THEN WithResult("error")
                ELSE Propagating("TypeError")
    /\ UNCHANGED <<configVars, httpCounters, target_dns_total, now, clientVars,
                   ret, operations, limiterVars, approvals>>

\* the body of the module ends, no request being in flight
ModuleEnds(outcome) ==
    /\ pipeline.pc = "running"
    /\ http.pc = "idle"
    /\ pipeline' =
            CASE outcome = "ok" -> WithResult("ok")
              [] outcome = "exception" -> WithResult("error")
              [] outcome = "base_exception" -> Propagating("BaseException")
    /\ UNCHANGED <<configVars, httpCounters, target_dns_total, now, clientVars,
                   ret, operations, limiterVars, approvals>>

\* the module that is running uses the HTTP client
ModuleUsesHttp ==
    /\ pipeline.pc = "running"
    /\ ModuleOrder[pipeline.index] \in HttpModules

\* finally: await http.close()
CloseTransport ==
    /\ pipeline.pc = "close"
    /\ pipeline' = [pipeline EXCEPT !.closed = TRUE, !.pc = "write_ledger"]
    /\ UNCHANGED <<configVars, httpCounters, target_dns_total, now, clientVars,
                   ret, operations, limiterVars, approvals>>

\* finally: _write_json(network_ledger.json, context.ledger.to_dict())
WriteLedger ==
    /\ pipeline.pc = "write_ledger"
    /\ pipeline' =
            [pipeline EXCEPT
                !.files = Append(@, [name |-> "network_ledger.json",
                                     data |-> to_dict]),
                !.pc = "write_manifest"]
    /\ UNCHANGED <<configVars, httpCounters, target_dns_total, now, clientVars,
                   ret, operations, limiterVars, approvals>>

\* finally: _write_json(run_manifest.json, _build_manifest(context)); then
\* the exception, if one is propagating, goes on to the caller
WriteManifest ==
    /\ pipeline.pc = "write_manifest"
    /\ pipeline' =
            [pipeline EXCEPT
                !.files = Append(@, [name |-> "run_manifest.json",
                                     data |-> [budgets |-> budgets,
                                               ledger_totals |-> totals]]),
                !.pc = IF pipeline.exc = "none" THEN "returned" ELSE "raised"]
    /\ UNCHANGED <<configVars, httpCounters, target_dns_total, now, clientVars,
                   ret, operations, limiterVars, approvals>>

\* the state after construction, whatever the configuration: time 0, the
\* counters at 0, an empty ledger, no request in flight
Constructed ==
    /\ target_http_total = 0
    /\ target_http_per_host = <<>>
    /\ target_dns_total = 0
    /\ now = 0
    /\ minute_window_start = now
    /\ minute_count = 0
    /\ entries = <<>>
    /\ http = Idle
    /\ interval = LimiterInterval(2)
    /\ next_time = now
    /\ stream_calls = <<>>
    /\ resolver_calls = 0
    /\ content = 0
    /\ pipeline = NotRun
    /\ approvals = <<>>
    /\ ret = Returned("from_config", "none")
    /\ operations = 0
    /\ releases = <<>>
    /\ tasks = [t \in Tasks |-> NotStarted]
    /\ lock = NoTask
    /\ waiters = <<>>

\* NetworkPolicy.from_config on the run configurations explored for the
\* HTTP checks of the guard; every ceiling is a positive number, as the
\* defaults of RunConfig are
InitHttpGuard ==
    /\ mode \in Modes
    /\ dns_policy = "minimal"
    /\ max_target_http_requests_total \in 1..MaxCeiling
    /\ max_target_http_per_host \in 1..MaxCeiling
    /\ max_target_http_per_minute \in 1..MaxCeiling
    /\ max_redirects \in {-1, 0, 1}
    /\ max_bytes_per_response = MaxBytes
    /\ max_target_dns_queries = MaxDnsCeiling
    /\ retries = 1
    /\ Constructed

NextHttpGuard ==
    /\ \/ \E method \in Methods, url \in Urls :
            \E res \in LookupsOf(method, url) : GuardHttpCall(method, url, res)
       \/ Tick
    /\ UNCHANGED <<operations, limiterVars, runVars>>

\* callers calling the guard's HTTP admission directly
HttpGuardSpec == InitHttpGuard /\ [][NextHttpGuard]_vars

\* the run configurations explored for the DNS side
InitDns ==
    /\ mode = "passive"
    /\ dns_policy \in DnsPolicies
    /\ max_target_http_requests_total = MaxCeiling
    /\ max_target_http_per_host = MaxCeiling
    /\ max_target_http_per_minute = MaxCeiling
    /\ max_redirects = 0
    /\ max_bytes_per_response = MaxBytes
    /\ max_target_dns_queries \in 1..MaxDnsCeiling
    /\ retries = 1
    /\ Constructed

NextDns ==
    /\ \/ \E query_name \in QueryNames, record_type \in RecordTypes :
            GuardDnsCall(query_name, record_type)
       \/ \E query_name \in QueryNames, record_type \in RecordTypes :
            \E outcome \in ResolverOutcomes :
                resolve_records(query_name, record_type, outcome)
    /\ UNCHANGED <<operations, limiterVars, runVars>>

\* DNS queries, through the guard alone and through the guarded DNS client
DnsSpec == InitDns /\ [][NextDns]_vars

\* the URLs and methods the modules of a run ask the client for
RunUrls == {ApexUrl, EvilUrl}
\* the values of RunConfig.retries explored
Retries == {0, 1}
RunMethods == {"GET", "HEAD", "POST"}

\* run_pipeline: the guard, the ledger and the clients built from a RunConfig
Init ==
    /\ mode \in Modes
    /\ dns_policy = "minimal"
    /\ max_target_http_requests_total \in 1..MaxCeiling
    /\ max_target_http_per_host = 1
    /\ max_target_http_per_minute = MaxCeiling
    /\ max_redirects = 0
    /\ max_bytes_per_response = MaxBytes
    /\ max_target_dns_queries = MaxDnsCeiling
    /\ retries \in Retries
    /\ Constructed

Next ==
    /\ \/ \E method \in RunMethods, url \in RunUrls :
            \E res \in LookupsOf(method, url) : request(method, url, res)
       \/ LimiterPass
       \/ LimiterSleep
       \/ LimiterWake
       \/ \E script \in TransportScripts : Attempt(script)
       \/ Backoff
       \/ \E query_name \in {ApexName}, record_type \in {"TXT", "A"} :
            \E outcome \in ResolverOutcomes :
                resolve_records(query_name, record_type, outcome)
       \/ Tick
    /\ UNCHANGED <<operations, limiterVars, runVars>>

\* a run: sequential callers of the guarded clients
Spec == Init /\ [][Next]_vars

\* the values of RunConfig.mode, retries and the total ceiling explored where
\* the calls of the clients are counted
InitClient ==
    /\ mode \in Modes
    /\ dns_policy = "minimal"
    /\ max_target_http_requests_total = 1
    /\ max_target_http_per_host = 1
    /\ max_target_http_per_minute = MaxCeiling
    /\ max_redirects = 0
    /\ max_bytes_per_response = MaxBytes
    /\ max_target_dns_queries = MaxDnsCeiling
    /\ retries \in Retries
    /\ Constructed

\* a caller calls HttpClient.request or DnsClient.resolve_records: one more
\* operation attempted
Called == operations < MaxOps /\ operations' = operations + 1

NextClient ==
    \/ /\ \E method \in RunMethods, url \in RunUrls :
            \E res \in LookupsOf(method, url) : request(method, url, res)
       /\ Called
       /\ UNCHANGED <<limiterVars, runVars>>
    \/ /\ \E query_name \in {ApexName}, record_type \in {"TXT", "A"} :
            \E outcome \in ResolverOutcomes :
                resolve_records(query_name, record_type, outcome)
       /\ Called
       /\ UNCHANGED <<limiterVars, runVars>>
    \/ LimiterPass /\ UNCHANGED <<operations, limiterVars, runVars>>
    \/ LimiterSleep /\ UNCHANGED <<operations, limiterVars, runVars>>
    \/ LimiterWake /\ UNCHANGED <<operations, limiterVars, runVars>>
    \/ /\ \E script \in TransportScripts : Attempt(script)
       /\ UNCHANGED <<operations, limiterVars, runVars>>
    \/ Backoff /\ UNCHANGED <<operations, limiterVars, runVars>>
    \/ Tick /\ UNCHANGED <<operations, limiterVars, runVars>>

\* a run in which the operations asked of the two clients are counted
ClientSpec == InitClient /\ [][NextClient]_vars

\* the run configurations explored where the ledger and the budgets are read
InitAudit ==
    /\ mode \in Modes
    /\ dns_policy = "minimal"
    /\ max_target_http_requests_total = 1
    /\ max_target_http_per_host = 1
    /\ max_target_http_per_minute = 1
    /\ max_redirects = 0
    /\ max_bytes_per_response = MaxBytes
    /\ max_target_dns_queries = MaxDnsCeiling
    /\ retries = 1
    /\ Constructed

NextAudit ==
    /\ \/ \E method \in {"GET"}, url \in RunUrls :
            \E res \in LookupsOf(method, url) : request(method, url, res)
       \/ LimiterPass
       \/ LimiterSleep
       \/ LimiterWake
       \/ \E script \in TransportScripts : Attempt(script)
       \/ Backoff
       \/ \E record_type \in {"TXT", "A"}, outcome \in ResolverOutcomes :
            resolve_records(ApexName, record_type, outcome)
       \/ \E entry \in DirectEntries : LedgerAddCall(entry)
       \/ TotalsCall
       \/ ToDictCall
       \/ BudgetsCall
       \/ Tick
    /\ UNCHANGED <<operations, limiterVars, runVars>>

\* a run whose caller also reads the budgets and the ledger, as run_pipeline
\* does for the manifest and the ledger file
AuditSpec == InitAudit /\ [][NextAudit]_vars

\* the run configurations explored where the release times are recorded
InitPacing ==
    /\ mode = "low-noise"
    /\ dns_policy = "minimal"
    /\ max_target_http_requests_total = MaxCeiling
    /\ max_target_http_per_host = MaxCeiling
    /\ max_target_http_per_minute = MaxCeiling
    /\ max_redirects = 0
    /\ max_bytes_per_response = MaxBytes
    /\ max_target_dns_queries = MaxDnsCeiling
    /\ retries \in Retries
    /\ Constructed

NextPacing ==
    \/ /\ \E method \in {"GET"}, url \in RunUrls :
            \E res \in LookupsOf(method, url) : request(method, url, res)
       /\ Called
       /\ UNCHANGED <<limiterVars, runVars>>
    \/ /\ LimiterPass
       /\ WaitReturned
       /\ UNCHANGED <<operations, tasks, lock, waiters, runVars>>
    \/ /\ LimiterSleep
       /\ UNCHANGED <<operations, limiterVars, runVars>>
    \/ /\ LimiterWake
       /\ WaitReturned
       /\ UNCHANGED <<operations, tasks, lock, waiters, runVars>>
    \/ /\ \E script \in TransportScripts : Attempt(script)
       /\ UNCHANGED <<operations, limiterVars, runVars>>
    \/ /\ Backoff
       /\ UNCHANGED <<operations, limiterVars, runVars>>
    \/ /\ Tick
       /\ UNCHANGED <<operations, limiterVars, runVars>>

\* a run with sequential callers in which the return of every wait() is
\* recorded
PacingSpec == InitPacing /\ [][NextPacing]_vars

\* the run configurations explored with concurrent callers
InitTasks ==
    /\ mode \in Modes
    /\ dns_policy = "minimal"
    /\ max_target_http_requests_total \in 1..MaxCeiling
    /\ max_target_http_per_host \in 1..MaxCeiling
    /\ max_target_http_per_minute \in 1..MaxCeiling
    /\ max_redirects = 0
    /\ max_bytes_per_response = MaxBytes
    /\ max_target_dns_queries = MaxDnsCeiling
    /\ retries = 0
    /\ Constructed

NextTasks ==
    \/ \E t \in Tasks, method \in {"GET"}, url \in RunUrls :
            \E res \in LookupsOf(method, url) : TaskRequest(t, method, url, res)
    \/ \E t \in Tasks : TaskGranted(t)
    \/ \E t \in Tasks : TaskWake(t)
    \/ /\ Tick
       /\ UNCHANGED <<operations, limiterVars, runVars>>

\* tasks that call HttpClient.request concurrently on one client, up to the
\* return of the rate limiter
TasksSpec == InitTasks /\ [][NextTasks]_vars

NextDnsClient ==
    /\ \E query_name \in QueryNames, record_type \in RecordTypes :
            \E outcome \in ResolverOutcomes :
                resolve_records(query_name, record_type, outcome)
    /\ UNCHANGED <<operations, limiterVars, runVars>>

\* DNS queries made through the guarded DNS client only
DnsClientSpec == InitDns /\ [][NextDnsClient]_vars

\* the run configurations explored where the times of the approvals are
\* recorded
InitWindow ==
    /\ mode = "low-noise"
    /\ dns_policy = "minimal"
    /\ max_target_http_requests_total \in 1..MaxCeiling
    /\ max_target_http_per_host = MaxCeiling
    /\ max_target_http_per_minute \in 1..MaxCeiling
    /\ max_redirects = 0
    /\ max_bytes_per_response = MaxBytes
    /\ max_target_dns_queries = MaxDnsCeiling
    /\ retries = 1
    /\ Constructed

\* enforce_http_request returned "target_http" to this call
ApprovalRecorded ==
    approvals' =
        IF ret'.error = NoError /\ ret'.value = "target_http"
        THEN Append(approvals, now)
        ELSE approvals

NextWindow ==
    \/ /\ \E method \in {"GET", "POST"}, url \in {ApexUrl, SubUrl, EvilUrl} :
            \E res \in LookupsOf(method, url) : GuardHttpCall(method, url, res)
       /\ ApprovalRecorded
       /\ UNCHANGED <<operations, limiterVars, pipeline>>
    \/ /\ Tick
       /\ UNCHANGED <<operations, limiterVars, runVars>>

\* callers calling the guard's HTTP admission directly, the time of every
\* approval being recorded
WindowSpec == InitWindow /\ [][NextWindow]_vars

\* the run configurations explored for run_pipeline
InitPipeline ==
    /\ mode \in Modes
    /\ dns_policy = "minimal"
    /\ max_target_http_requests_total = 1
    /\ max_target_http_per_host = 1
    /\ max_target_http_per_minute = 1
    /\ max_redirects = 0
    /\ max_bytes_per_response = MaxBytes
    /\ max_target_dns_queries = MaxDnsCeiling
    /\ retries = 0
    /\ Constructed

\* run_pipeline: the modules one after the other, the requests of the module
\* that is running, and the finally block. The call of doc_signals.run
\* raises TypeError (five arguments for four parameters), so the synthesis
\* and the reports that follow the modules are never reached.
NextPipeline ==
    \/ StartRun
    \/ ModuleCall
    \/ \E outcome \in ModuleOutcomes : ModuleEnds(outcome)
    \/ /\ ModuleUsesHttp
       /\ \/ \E url \in RunUrls :
                \E res \in LookupsOf("GET", url) : request("GET", url, res)
          \/ LimiterPass
          \/ LimiterSleep
          \/ LimiterWake
          \/ \E script \in TransportScripts : Attempt(script)
       /\ UNCHANGED <<operations, limiterVars, runVars>>
    \/ CloseTransport
    \/ WriteLedger
    \/ WriteManifest
    \/ /\ Tick
       /\ UNCHANGED <<operations, limiterVars, runVars>>

PipelineSpec == InitPipeline /\ [][NextPipeline]_vars

\* ------------------------------------------------------------ claims
\* the host a URL of Urls names, by the table of the inputs
HostNamed(url) == IF url = UpperUrl THEN ApexUrl ELSE url
InScopeHosts == {ApexUrl, SubUrl}

\* the methods of Methods that are GET or HEAD whatever their case
GetOrHead == {"GET", "HEAD", "head"}

\* getaddrinfo returned, and every address it returned is a public one
AllPublic(res) ==
    ~res.oserror /\ \A i \in 1..Len(res.infos) : res.infos[i] = PublicIp

\* a call of enforce_http_request approved a target request
ApprovedTarget(r) ==
    r.op = "enforce_http_request" /\ r.error = NoError /\ r.value = "target_http"

\* C1: in passive mode enforce_http_request raises for every method and every
\* in-scope URL, and target_http_total, every per-host count and the minute
\* count are 0 after any sequence of calls.
C1_PassiveRejectsTarget ==
    mode = "passive" =>
        /\ \A m \in Methods, u \in InScopeUrls, r \in Resolutions \cup {NoLookup} :
            HttpError(m, u, r) = ErrPassive
        /\ ~ApprovedTarget(ret)
        /\ target_http_total = 0
        /\ \A h \in DOMAIN target_http_per_host : target_http_per_host[h] = 0
        /\ minute_count = 0

\* a target request was rejected in passive mode
C1_Witness ==
    mode = "passive" /\ ret = Raised("enforce_http_request", ErrPassive)

\* C2 as amended: in low-noise mode target_http_total never exceeds its
\* ceiling; an in-scope GET/HEAD request that passes the other checks is
\* approved while the counter is below the ceiling; an in-scope GET/HEAD
\* request issued when the counter equals the ceiling raises the total-budget
\* violation; an off-domain request other than HEAD issued at that moment is
\* allowed, and an off-domain HEAD is rejected by the off-domain HEAD rule.
C2_TotalBudget ==
    mode = "low-noise" =>
        /\ target_http_total <= max_target_http_requests_total
        /\ \A m \in GetOrHead, u \in InScopeUrls, r \in Resolutions :
            /\ ( /\ target_http_total < max_target_http_requests_total
                 /\ max_redirects = 0
                 /\ PerHostCount(HostNamed(u)) < max_target_http_per_host
                 /\ MinuteCountAtCheck < max_target_http_per_minute
                 /\ AllPublic(r) )
               => HttpError(m, u, r) = NoError
            /\ target_http_total = max_target_http_requests_total
               => HttpError(m, u, r) = ErrTotal
        /\ \A m \in Methods, u \in OffDomainUrls :
            target_http_total = max_target_http_requests_total
            => HttpError(m, u, NoLookup) =
                 (IF m \in {"HEAD", "head"} THEN ErrOffDomainHead ELSE NoError)

\* the total-budget violation was raised
C2_Witness ==
    /\ mode = "low-noise"
    /\ target_http_total = max_target_http_requests_total
    /\ ret = Raised("enforce_http_request", ErrTotal)

\* C2 as stated: as C2_TotalBudget, but every off-domain request issued when
\* the counter equals the ceiling is allowed.
C2_AsStated ==
    mode = "low-noise" =>
        /\ target_http_total <= max_target_http_requests_total
        /\ \A m \in GetOrHead, u \in InScopeUrls, r \in Resolutions :
            /\ ( /\ target_http_total < max_target_http_requests_total
                 /\ max_redirects = 0
                 /\ PerHostCount(HostNamed(u)) < max_target_http_per_host
                 /\ MinuteCountAtCheck < max_target_http_per_minute
                 /\ AllPublic(r) )
               => HttpError(m, u, r) = NoError
            /\ target_http_total = max_target_http_requests_total
               => HttpError(m, u, r) = ErrTotal
        /\ \A m \in Methods, u \in OffDomainUrls :
            target_http_total = max_target_http_requests_total
            => HttpError(m, u, NoLookup) = NoError

\* C3: no per-host count exceeds max_target_http_per_host; a GET/HEAD request
\* to a host whose count equals the ceiling raises the per-host violation
\* when the total is below its ceiling; the per-host check of a request to a
\* host whose own count is below the ceiling passes whatever the other
\* hosts' counts are.
C3_PerHostBudget ==
    /\ \A h \in DOMAIN target_http_per_host :
        target_http_per_host[h] <= max_target_http_per_host
    /\ \A m \in GetOrHead, u \in InScopeUrls, r \in Resolutions :
        ( /\ mode = "low-noise"
          /\ max_redirects = 0
          /\ target_http_total < max_target_http_requests_total )
        => IF PerHostCount(HostNamed(u)) = max_target_http_per_host
           THEN HttpError(m, u, r) = ErrPerHost
           ELSE HttpError(m, u, r) # ErrPerHost

\* a per-host violation was raised with total budget left, while another
\* in-scope host still has budget
C3_Witness ==
    /\ ret = Raised("enforce_http_request", ErrPerHost)
    /\ target_http_total < max_target_http_requests_total
    /\ \E h \in InScopeHosts : PerHostCount(h) < max_target_http_per_host

\* the outcome of a call of enforce_http_request that got as far as the
\* per-minute window (line 123)
ReachedWindow(r) ==
    /\ r.op = "enforce_http_request"
    /\ \/ ApprovedTarget(r)
       \/ r.error \in {ErrPerMinute, ErrScope, ErrResolve, ErrNonPublic}

\* a GET/HEAD request to the in-scope URL u passes every check that comes
\* before the per-minute window
PassesToWindow(u) ==
    /\ mode = "low-noise"
    /\ max_redirects = 0
    /\ target_http_total < max_target_http_requests_total
    /\ PerHostCount(HostNamed(u)) < max_target_http_per_host

\* a step of NextHttpGuard that is a call of enforce_http_request: Tick is
\* the only step that moves the clock
CallStep == now' = now

\* C4: while less than 60 seconds have passed since the window start, a
\* request that gets to the window is rejected with the per-minute violation
\* when the window count equals max_target_http_per_minute and otherwise
\* approved if the resolution check passes; each approval adds one to the
\* count and nothing else changes the window, so the count, which never
\* exceeds the ceiling, is the number of approvals since the window start. A
\* request that gets to the window 60 seconds or more after its start sets
\* the window start to the current time and the count to zero, and is then
\* approved (count one) exactly if the resolution check passes.
C4_Window ==
    /\ [](/\ minute_count <= max_target_http_per_minute
          /\ \A m \in GetOrHead, u \in InScopeUrls, r \in Resolutions :
                PassesToWindow(u) =>
                    IF now - minute_window_start < Window
                    THEN IF minute_count = max_target_http_per_minute
                         THEN HttpError(m, u, r) = ErrPerMinute
                         ELSE HttpError(m, u, r) = NoError <=> AllPublic(r)
                    ELSE HttpError(m, u, r) = NoError <=> AllPublic(r))
    /\ [][IF ~CallStep
          THEN UNCHANGED <<minute_window_start, minute_count>>
          ELSE IF now - minute_window_start < Window
          THEN /\ minute_window_start' = minute_window_start
               /\ minute_count' = minute_count + (IF ApprovedTarget(ret') THEN 1 ELSE 0)
          ELSE IF ReachedWindow(ret')
          THEN /\ minute_window_start' = now
               /\ minute_count' = (IF ApprovedTarget(ret') THEN 1 ELSE 0)
          ELSE UNCHANGED <<minute_window_start, minute_count>>]_vars

\* a request was approved in a window that started 60 seconds or more after
\* the first one
C4_Witness ==
    /\ ApprovedTarget(ret)
    /\ minute_window_start >= Window
    /\ minute_window_start = now
    /\ minute_count = 1

\* C5: an in-scope GET/HEAD request that passes every budget check is rejected
\* when getaddrinfo raises and when any one of the addresses it returns is
\* private, loopback or link-local, and the step that rejects it increments
\* no counter.
C5_FailClosed ==
    /\ [](\A m \in GetOrHead, u \in InScopeUrls, r \in Resolutions :
            ( /\ PassesToWindow(u)
              /\ MinuteCountAtCheck < max_target_http_per_minute )
            => /\ r.oserror => HttpError(m, u, r) = ErrResolve
               /\ ( /\ ~r.oserror
                    /\ \E i \in 1..Len(r.infos) :
                        r.infos[i] \in {PrivateIp, LoopbackIp, LinkLocalIp} )
                  => HttpError(m, u, r) = ErrNonPublic)
    /\ [][( /\ CallStep
            /\ ret'.error \in {ErrResolve, ErrNonPublic} )
          => /\ target_http_total' = target_http_total
             /\ \A h \in DOMAIN target_http_per_host' :
                    target_http_per_host'[h] = PerHostCount(h)
             /\ minute_count' <= minute_count]_vars

\* a request was rejected for a non-public address while budget was left
C5_Witness ==
    /\ ret = Raised("enforce_http_request", ErrNonPublic)
    /\ target_http_total < max_target_http_requests_total
    /\ target_http_total > 0

\* C6: a URL whose host is neither the domain nor a subdomain of it is
\* classified third_party_http whatever the mode, the method and the budgets,
\* a call of enforce_http_request on it returns third_party_http or raises
\* the off-domain HEAD violation, and a call with one of these two outcomes
\* changes no counter, no per-host count and nothing of the minute window.
C6_OffDomainFrame ==
    /\ [](\A m \in Methods, u \in OffDomainUrls :
            /\ classify_http(u) = "third_party_http"
            /\ LookupsOf(m, u) = {NoLookup}
            /\ HttpError(m, u, NoLookup) \in {NoError, ErrOffDomainHead})
    /\ [](\A m \in Methods, u \in InScopeUrls :
            /\ classify_http(u) = "target_http"
            /\ \A r \in LookupsOf(m, u) : HttpError(m, u, r) # ErrOffDomainHead)
    /\ [][( /\ CallStep
            /\ \/ ret' = Returned("enforce_http_request", "third_party_http")
               \/ ret' = Raised("enforce_http_request", ErrOffDomainHead) )
          => UNCHANGED httpCounters]_vars

\* an off-domain request was allowed after a target request had been debited
C6_Witness ==
    /\ ret = Returned("enforce_http_request", "third_party_http")
    /\ target_http_total = max_target_http_requests_total
    /\ minute_count > 0

\* the per-host count of h was incremented by one and no other count changed
OnlyHostIncremented(h) ==
    /\ h \in DOMAIN target_http_per_host'
    /\ \A g \in DOMAIN target_http_per_host' :
        target_http_per_host'[g] = PerHostCount(g) + (IF g = h THEN 1 ELSE 0)

\* C7: a step of enforce_http_request that approves a target request adds
\* exactly one to target_http_total, to the per-host count of one in-scope
\* host and to the window count (counted from zero when the window had
\* expired), and is taken only where every check passes: low-noise mode, zero
\* redirects, the three counts below their ceilings, and, for the inputs,
\* approval only of GET/HEAD with every resolved address public. A step that
\* rejects a request, or allows an off-domain one, increments none of them.
C7_DebitAfterChecks ==
    /\ [](\A m \in Methods, u \in Urls : \A r \in LookupsOf(m, u) :
            (classify_http(u) = "target_http" /\ HttpError(m, u, r) = NoError)
            => /\ m \in GetOrHead
               /\ u \in InScopeUrls
               /\ AllPublic(r)
               /\ PassesToWindow(u)
               /\ MinuteCountAtCheck < max_target_http_per_minute)
    /\ [][CallStep =>
            IF ApprovedTarget(ret')
            THEN /\ target_http_total' = target_http_total + 1
                 /\ \E h \in InScopeHosts :
                        /\ PerHostCount(h) < max_target_http_per_host
                        /\ OnlyHostIncremented(h)
                 /\ minute_count' = MinuteCountAtCheck + 1
                 /\ mode = "low-noise"
                 /\ max_redirects = 0
                 /\ target_http_total < max_target_http_requests_total
                 /\ MinuteCountAtCheck < max_target_http_per_minute
            ELSE /\ target_http_total' = target_http_total
                 /\ \A g \in DOMAIN target_http_per_host' :
                        target_http_per_host'[g] = PerHostCount(g)
                 /\ minute_count' <= minute_count]_vars

\* a second request was approved, to a host already debited once
C7_Witness ==
    /\ ApprovedTarget(ret)
    /\ target_http_total = 2
    /\ \E h \in InScopeHosts : PerHostCount(h) = 2

\* C8: no step of a run decreases target_http_total, a per-host count or
\* target_dns_total: not the end of a request whose transport failed, not the
\* byte cap, not a failed DNS resolution.
C8_CountersNeverDecrease ==
    [][/\ target_http_total' >= target_http_total
       /\ \A h \in DOMAIN target_http_per_host :
            /\ h \in DOMAIN target_http_per_host'
            /\ target_http_per_host'[h] >= target_http_per_host[h]
       /\ target_dns_total' >= target_dns_total]_vars

\* a debited target request ended in a transport error after a debited DNS
\* query had failed, and both debits are still there
C8_Witness ==
    /\ ret = Raised("request", ErrTransport)
    /\ target_http_total >= 1
    /\ \E h \in InScopeHosts : PerHostCount(h) >= 1
    /\ target_dns_total >= 1
    /\ \E i \in 1..Len(entries) :
        entries[i].type = "target_dns" /\ entries[i].error = ErrLookup

\* the number of ledger entries of a type, and of a type and host
CountType(type) ==
    Cardinality({i \in 1..Len(entries) : entries[i].type = type})
CountTypeHost(type, host) ==
    Cardinality({i \in 1..Len(entries) :
        entries[i].type = type /\ entries[i].destination_host = host})

\* C9: the transport attempts sent to in-scope hosts, as the stream calls
\* made and as the target_http entries of the ledger, never exceed
\* max_target_http_requests_total, and those to one host never exceed
\* max_target_http_per_host.
C9_NoiseContract ==
    /\ CountType("target_http") <= max_target_http_requests_total
    /\ \A h \in InScopeHosts :
        /\ CountTypeHost("target_http", h) <= max_target_http_per_host
        /\ h \in DOMAIN stream_calls => stream_calls[h] <= max_target_http_per_host

\* C10: with DNS policy none enforce_dns_query rejects every query,
\* resolve_records returns an empty list, the resolver is never called and
\* target_dns_total stays 0.
C10_DnsNone ==
    dns_policy = "none" =>
        /\ \A q \in QueryNames, rt \in RecordTypes : DnsError(q, rt) = ErrDnsNone
        /\ ret.op = "resolve_records" => ret.value = <<>>
        /\ ret.op = "enforce_dns_query" => ret.error = ErrDnsNone
        /\ resolver_calls = 0
        /\ target_dns_total = 0

\* two lookups were asked of the client under the none policy
C10_Witness ==
    /\ dns_policy = "none"
    /\ ret.op = "resolve_records"
    /\ Len(entries) >= 2

\* the pairs of the inputs that name (domain, MX), (domain, TXT) or
\* (_dmarc.domain, TXT): DNS names and record types whatever their case, a
\* name with or without the dot of the root
OnMinimalList(q, rt) ==
    \/ q \in {ApexName, RootedUpperName} /\ rt \in {"TXT", "txt", "MX"}
    \/ q = DmarcName /\ rt \in {"TXT", "txt"}

\* the entry a step has appended to the ledger
Appended == entries'[Len(entries')]
\* a step that is a call of resolve_records: it appends one entry
LookupStep == ret'.op = "resolve_records" /\ Len(entries') = Len(entries) + 1
\* a step that is a direct call of enforce_dns_query
DnsGuardStep == ret'.op = "enforce_dns_query"

\* C11: with DNS policy minimal a query is approved only if its pair is
\* (domain, MX), (domain, TXT) or (_dmarc.domain, TXT), and such a pair is
\* approved while budget is left; every other pair is rejected whatever the
\* budget left, and a lookup of such a pair through the client does not call
\* the resolver, returns an empty list and leaves target_dns_total as it was.
C11_DnsMinimal ==
    /\ [](dns_policy = "minimal" =>
            \A q \in QueryNames, rt \in RecordTypes :
                IF OnMinimalList(q, rt)
                THEN DnsError(q, rt) = NoError
                        <=> target_dns_total < max_target_dns_queries
                ELSE DnsError(q, rt) \in {ErrDnsMinimal, ErrDnsBudget})
    /\ [][( /\ dns_policy = "minimal"
            /\ LookupStep
            /\ ~OnMinimalList(Appended.destination_host, Appended.record_type) )
          => /\ resolver_calls' = resolver_calls
             /\ target_dns_total' = target_dns_total
             /\ ret' = Returned("resolve_records", <<>>)
             /\ Appended.error \in {ErrDnsMinimal, ErrDnsBudget}]_vars
    /\ [][( /\ dns_policy = "minimal"
            /\ DnsGuardStep
            /\ ret'.error = ErrDnsMinimal )
          => UNCHANGED target_dns_total]_vars

\* the A record of the domain was asked for with budget left and blocked,
\* after a TXT lookup had been let through
C11_Witness ==
    /\ dns_policy = "minimal"
    /\ Len(entries) = 2
    /\ entries[1].success = TRUE
    /\ entries[2].destination_host = ApexName
    /\ entries[2].record_type = "A"
    /\ entries[2].error = ErrDnsMinimal
    /\ target_dns_total < max_target_dns_queries
    /\ ret = Returned("resolve_records", <<>>)

\* a step in which enforce_dns_query approved a query
DnsApprovedStep ==
    \/ DnsGuardStep /\ ret'.error = NoError
    \/ LookupStep /\ resolver_calls' = resolver_calls + 1

\* C12: under the policies minimal and full target_dns_total never exceeds
\* max_target_dns_queries; a query issued when the counter equals the ceiling
\* is rejected with the budget violation, a pair of the minimal allow-list
\* included; a step that approves a query adds exactly one to the counter and
\* every other step leaves it as it was.
C12_DnsBudget ==
    /\ [](dns_policy \in {"minimal", "full"} =>
            /\ target_dns_total <= max_target_dns_queries
            /\ target_dns_total = max_target_dns_queries
               => \A q \in QueryNames, rt \in RecordTypes :
                    DnsError(q, rt) = ErrDnsBudget)
    /\ [][(dns_policy \in {"minimal", "full"}) =>
            IF DnsApprovedStep
            THEN /\ target_dns_total' = target_dns_total + 1
                 /\ target_dns_total < max_target_dns_queries
            ELSE UNCHANGED target_dns_total]_vars

\* a TXT lookup of the domain, which is on the allow-list, was rejected for
\* the budget under the minimal policy
C12_Witness ==
    /\ dns_policy = "minimal"
    /\ target_dns_total = max_target_dns_queries
    /\ Len(entries) > 0
    /\ entries[Len(entries)].error = ErrDnsBudget
    /\ OnMinimalList(entries[Len(entries)].destination_host,
                     entries[Len(entries)].record_type)

\* C13: with DNS policy full enforce_dns_query approves every pair while
\* target_dns_total is below max_target_dns_queries, and the only rejection
\* it makes is the budget rejection, made when the counter is at the ceiling.
C13_DnsFull ==
    dns_policy = "full" =>
        /\ \A q \in QueryNames, rt \in RecordTypes :
            DnsError(q, rt) =
                (IF target_dns_total < max_target_dns_queries
                 THEN NoError ELSE ErrDnsBudget)
        /\ ret.op = "enforce_dns_query" => ret.error \in {NoError, ErrDnsBudget}
        /\ \A i \in 1..Len(entries) :
            entries[i].error \in {NoError, ErrLookup, ErrDnsBudget}

\* under the full policy the A record of a subdomain was resolved, and the
\* next query was rejected for the budget
C13_Witness ==
    /\ dns_policy = "full"
    /\ Len(entries) > 0
    /\ entries[1].destination_host = SubName
    /\ entries[1].record_type = "A"
    /\ entries[1].success = TRUE
    /\ ret = Raised("enforce_dns_query", ErrDnsBudget)

\* C14: resolve_records never raises to its caller: it returns an empty list
\* when the guard rejects the query and when the resolver fails, and the
\* record strings when the resolution succeeds.
C14_DnsNeverRaises ==
    /\ [](ret.op = "resolve_records" => ret.error = NoError)
    /\ [][LookupStep =>
            /\ ret'.error = NoError
            /\ IF resolver_calls' = resolver_calls
               THEN /\ DnsError(Appended.destination_host,
                                Appended.record_type) # NoError
                    /\ ret'.value = <<>>
               ELSE /\ DnsError(Appended.destination_host,
                                Appended.record_type) = NoError
                    /\ IF Appended.success = TRUE
                       THEN \E o \in ResolverOutcomes :
                                ~o.raises /\ ret'.value = o.answers
                       ELSE ret'.value = <<>>]_vars

\* one lookup was blocked by the guard and the next failed in the resolver:
\* both gave the caller an empty list
C14_Witness ==
    /\ Len(entries) = 2
    /\ entries[1].error = ErrDnsMinimal
    /\ entries[2].error = ErrLookup
    /\ resolver_calls = 1
    /\ ret = Returned("resolve_records", <<>>)

\* C15: a call of resolve_records appends exactly one entry, of type
\* target_dns, in the step that gives the result, and nothing else touches
\* the ledger; the entry has success = true exactly when the resolver was
\* called and returned, and otherwise success = false with the text of the
\* rejection or of the failure as error.
C15_DnsLedger ==
    [][IF ret'.op = "resolve_records"
       THEN /\ entries' = Append(entries, Appended)
            /\ Appended.type = "target_dns"
            /\ IF resolver_calls' = resolver_calls + 1 /\ ret'.value # <<>>
               THEN /\ Appended.success = TRUE
                    /\ Appended.status = "ok"
                    /\ Appended.error = NoError
               ELSE /\ Appended.success = FALSE
                    /\ Appended.status = "error"
                    /\ IF resolver_calls' = resolver_calls
                       THEN /\ Appended.error \in
                                {ErrDnsNone, ErrDnsBudget, ErrDnsMinimal}
                            /\ Appended.error =
                                DnsError(Appended.destination_host,
                                         Appended.record_type)
                       ELSE Appended.error = ErrLookup
       ELSE UNCHANGED entries]_vars

\* the ledger shows one resolved lookup and then one blocked for the budget
C15_Witness ==
    /\ Len(entries) = 2
    /\ entries[1].success = TRUE
    /\ entries[1].error = NoError
    /\ entries[2].success = FALSE
    /\ entries[2].error = ErrDnsBudget
    /\ resolver_calls = 1

\* the violations enforce_http_request raises
GuardErrors ==
    {ErrOffDomainHead, ErrPassive, ErrRedirects, ErrMethod, ErrTotal,
     ErrPerHost, ErrPerMinute, ErrScope, ErrResolve, ErrNonPublic}

\* a step in which a caller calls HttpClient.request
RequestStep ==
    http.pc = "idle" /\ operations' = operations + 1 /\ ret'.op = "request"

\* C16: a call of HttpClient.request that the guard rejects gives the
\* violation to the caller in the step of the call: no request is left in
\* flight, so there is no retry, and the rate limiter, the transport and the
\* ledger are as they were; the limiter and the transport are reached only
\* by a request the guard has admitted.
C16_RejectionImmediate ==
    /\ [](ret.op = "request" /\ ret.error \in GuardErrors => http = Idle)
    /\ [][RequestStep =>
            IF ret'.error # NoError
            THEN /\ ret'.error \in GuardErrors
                 /\ http' = Idle
                 /\ UNCHANGED <<next_time, stream_calls, entries>>
            ELSE /\ ret' = Returned("request", "admitted")
                 /\ http'.pc = "wait"
                 /\ http'.attempt = 0]_vars
    /\ [][(next_time' # next_time \/ stream_calls' # stream_calls)
          => /\ http.pc \in {"wait", "sleep", "send"}
             /\ ret.error \notin GuardErrors]_vars

\* a POST to the domain was rejected before anything was sent or waited for
C16_Witness ==
    /\ ret = Raised("request", ErrMethod)
    /\ http = Idle
    /\ stream_calls = <<>>
    /\ next_time = 0
    /\ operations = 1

\* C17: whenever a call of HttpClient.request has raised, a rejection by
\* enforce_http_request included, the last entry of the ledger is the entry of
\* that error: an HTTP entry with a category and the error text.
C17_ErrorsLedgered ==
    (ret.op = "request" /\ ret.error # NoError) =>
        /\ Len(entries) > 0
        /\ entries[Len(entries)].type \in {"target_http", "third_party_http"}
        /\ entries[Len(entries)].error = ret.error

RECURSIVE SumCounts(_, _)
\* the sum of the counts of the types in S
SumCounts(counts, S) ==
    IF S = {} THEN 0
    ELSE LET t == CHOOSE x \in S : TRUE
         IN  counts[t] + SumCounts(counts, S \ {t})

\* C18: when no request is in flight, the ledger holds as many entries as
\* operations were asked of the two clients, and the per-category counts of
\* totals() sum to that number.
C18_LedgerComplete ==
    http.pc = "idle" =>
        /\ total_entries = operations
        /\ SumCounts(totals_counts, DOMAIN totals_counts) = operations

\* C19: the step in which the byte cap aborts a response raises the policy
\* violation to the caller and appends an entry for the request, with the
\* bytes received so far, which are more than the cap, and success = false.
C19_ByteCapLedgered ==
    [][(http.pc = "send" /\ ret' = Raised("request", ErrByteCap))
       => /\ http' = Idle
          /\ Len(entries') = Len(entries) + 1
          /\ entries'[Len(entries')].type = http.category
          /\ entries'[Len(entries')].bytes_in > max_bytes_per_response
          /\ entries'[Len(entries')].success = FALSE]_vars

\* the transport calls made for a host
StreamCalls(host) ==
    IF host \in DOMAIN stream_calls THEN stream_calls[host] ELSE 0

\* C20: the attempt in flight is always one of the retries + 1 attempts of
\* its request; an attempt that succeeds ends the request and returns the
\* response; an attempt whose transport fails is followed by another only
\* while fewer than retries further attempts were made, and the failure of
\* the last attempt is raised to the caller; the transport is called once per
\* attempt.
C20_Retries ==
    /\ [](http.pc # "idle" => http.attempt \in 0..retries)
    /\ [][/\ (http.pc = "send" /\ http' # http) =>
                /\ \E h \in {Lower(urlparse_hostname(http.url))} :
                        stream_calls'[h] = StreamCalls(h) + 1
                /\ \/ http' = Idle /\ ret' = Returned("request", "response")
                   \/ http' = Idle /\ ret' = Raised("request", ErrByteCap)
                   \/ /\ http' = [http EXCEPT !.pc = "backoff",
                                              !.last_exc = ErrTransport]
                      /\ ret' = ret
          /\ (http.pc = "backoff" /\ http' # http) =>
                /\ UNCHANGED <<stream_calls, entries>>
                /\ IF http.attempt < retries
                   THEN /\ http' = [http EXCEPT !.pc = "wait",
                                                !.attempt = http.attempt + 1]
                        /\ ret' = ret
                   ELSE /\ http' = Idle
                        /\ http.last_exc = ErrTransport
                        /\ ret' = Raised("request", ErrTransport)
          /\ stream_calls' # stream_calls => http.pc = "send"
          /\ ret' = Raised("request", ErrTransport) /\ ret' # ret
                => http.pc = "backoff" /\ http.attempt = retries]_vars

\* with retries = 1 the first attempt failed in the transport and the second
\* returned the response
C20_Witness ==
    /\ retries = 1
    /\ ret = Returned("request", "response")
    /\ http = Idle
    /\ Len(entries) = 2
    /\ entries[1].error = ErrTransport
    /\ entries[2].status = "200"
    /\ operations = 1

\* C21: every attempt of an admitted request, from the call of the transport
\* to its outcome, appends exactly one entry of the request's category: an
\* entry with the response status when the attempt ends the request, an error
\* entry when it does not.
C21_AttemptsLedgered ==
    [][(http.pc = "send" /\ http' # http)
       => /\ Len(entries') = Len(entries) + 1
          /\ entries' = Append(entries, Appended)
          /\ Appended.type = http.category
          /\ IF http'.pc = "backoff"
             THEN Appended.error = ErrTransport
             ELSE /\ Appended.status = "200"
                  /\ ret' = Returned("request", "response")]_vars

\* C22: in low-noise mode with max_redirects other than zero every request
\* to an in-scope URL is rejected with the redirects violation, whatever its
\* method, the budgets and the resolution, and the counters, the per-host
\* map and the window stay as they were constructed; a target request is
\* approved only with max_redirects = 0.
C22_RedirectsMustBeZero ==
    /\ []((mode = "low-noise" /\ max_redirects # 0) =>
            /\ \A m \in Methods, u \in InScopeUrls,
                  r \in Resolutions \cup {NoLookup} :
                    HttpError(m, u, r) = ErrRedirects
            /\ target_http_total = 0
            /\ target_http_per_host = <<>>
            /\ minute_count = 0
            /\ minute_window_start = 0)
    /\ [](\A m \in Methods, u \in InScopeUrls, r \in Resolutions :
            HttpError(m, u, r) = NoError => max_redirects = 0)
    /\ [][ApprovedTarget(ret') /\ CallStep => max_redirects = 0]_vars

\* a target request was rejected under a negative redirects ceiling
C22_Witness ==
    /\ mode = "low-noise"
    /\ max_redirects < 0
    /\ ret = Raised("enforce_http_request", ErrRedirects)

\* C23: a request to an off-domain URL is rejected exactly when the mode is
\* low-noise and the method is HEAD in any case; every other one is approved
\* as third_party_http whatever the budgets left and the redirects ceiling,
\* without a lookup of the host, and the call changes nothing in the guard.
C23_OffDomainRule ==
    /\ [](\A m \in Methods, u \in OffDomainUrls :
            /\ LookupsOf(m, u) = {NoLookup}
            /\ HttpError(m, u, NoLookup) =
                (IF mode = "low-noise" /\ m \in {"HEAD", "head"}
                 THEN ErrOffDomainHead ELSE NoError))
    /\ [][(CallStep /\ ret'.error = ErrOffDomainHead)
          => mode = "low-noise" /\ UNCHANGED httpCounters]_vars
    /\ [][(CallStep /\ ret' = Returned("enforce_http_request", "third_party_http"))
          => UNCHANGED httpCounters]_vars

\* in passive mode an off-domain request was approved
C23_Witness ==
    /\ mode = "passive"
    /\ ret = Returned("enforce_http_request", "third_party_http")
    /\ now > 0

\* C24: in low-noise mode a request to an in-scope URL whose method is not
\* GET or HEAD in any case is rejected, with the method violation when
\* redirects are off, whatever the budgets; the call of the client that is
\* rejected so debits nothing and calls no transport, and the transport is
\* called for an in-scope host with GET or HEAD only.
C24_MethodRule ==
    /\ [](mode = "low-noise" =>
            \A m \in Methods, u \in InScopeUrls,
               r \in Resolutions \cup {NoLookup} :
                IF m \in GetOrHead
                THEN HttpError(m, u, r) # ErrMethod
                ELSE HttpError(m, u, r) =
                        (IF max_redirects # 0 THEN ErrRedirects ELSE ErrMethod))
    /\ [][(RequestStep /\ ret'.error = ErrMethod)
          => /\ UNCHANGED <<httpCounters, stream_calls, next_time, entries>>
             /\ http' = Idle]_vars
    /\ [][(stream_calls' # stream_calls /\ http.category = "target_http")
          => http.method \in {"GET", "HEAD"}]_vars

\* a POST to the domain was rejected for its method although the total
\* budget was spent already, after a GET had been sent
C24_Witness ==
    /\ mode = "low-noise"
    /\ ret = Raised("request", ErrMethod)
    /\ target_http_total = max_target_http_requests_total
    /\ StreamCalls(ApexUrl) > 0

\* C25: a call of budgets() leaves the counters, the per-host map, the minute
\* window, the DNS counter and the ledger as they were; what it returned is
\* the snapshot of the configuration, whose allow_target_http flag is true
\* exactly when the mode is low-noise, and a second call right after the
\* first returns the same snapshot.
C25_BudgetsReadOnly ==
    /\ [](ret.op = "budgets" =>
            /\ ret.value = budgets
            /\ ret.value.allow_target_http = (mode = "low-noise")
            /\ ret.value.max_target_http_requests_total
                    = max_target_http_requests_total)
    /\ [][ret'.op = "budgets" =>
            UNCHANGED <<httpCounters, target_dns_total, entries, http,
                        next_time, configVars>>]_vars
    /\ [][(ret.op = "budgets" /\ ret'.op = "budgets") => ret' = ret]_vars

\* the budgets were read in low-noise mode after a target request had been
\* debited in the current window
C25_Witness ==
    /\ ret.op = "budgets"
    /\ mode = "low-noise"
    /\ ret.value.allow_target_http
    /\ target_http_total = 1
    /\ minute_count = 1

\* C26: the ledger is append-only: every step leaves the entries there were,
\* in their order and unchanged, as a prefix of the new sequence and appends
\* at most one entry; the entry appended is the one of the attempt made in
\* that step (the attempt of the request in flight, the DNS lookup, or the
\* add call), so that the order of the entries is the order of the attempts;
\* totals(), to_dict() and budgets() append nothing.
C26_AppendOnly ==
    [][/\ Len(entries) <= Len(entries')
       /\ Len(entries') <= Len(entries) + 1
       /\ SubSeq(entries', 1, Len(entries)) = entries
       /\ Len(entries') = Len(entries) + 1 =>
            \/ /\ http.pc = "send"
               /\ Appended.type = http.category
               /\ Appended.destination_host = Lower(urlparse_hostname(http.url))
            \/ ret'.op = "resolve_records" /\ Appended.type = "target_dns"
            \/ ret'.op = "add" /\ Appended \in DirectEntries
       /\ ret'.op \in {"totals", "to_dict", "budgets"} => entries' = entries]_vars

\* an entry added by hand is followed by the entry of a DNS lookup, and the
\* ledger was exported after that
C26_Witness ==
    /\ Len(entries) = 2
    /\ entries[1] \in DirectEntries
    /\ entries[2].type = "target_dns"
    /\ ret.op = "to_dict"

\* the positions of the entries of a category
EntriesOf(type) == {i \in 1..Len(entries) : entries[i].type = type}

RECURSIVE SumBytesIn(_)
\* the sum of bytes_in over the entries at the positions S
SumBytesIn(S) ==
    IF S = {} THEN 0
    ELSE LET i == CHOOSE x \in S : TRUE
         IN  entries[i].bytes_in + SumBytesIn(S \ {i})

RECURSIVE SumBytesOut(_)
\* the sum of bytes_out over the entries at the positions S
SumBytesOut(S) ==
    IF S = {} THEN 0
    ELSE LET i == CHOOSE x \in S : TRUE
         IN  entries[i].bytes_out + SumBytesOut(S \ {i})

\* C27: totals() counts, for each category that has entries, the entries of
\* that category and sums their bytes_out and bytes_in; total_entries is the
\* number of entries and the sum of the counts; a call of totals() or
\* to_dict() leaves the ledger as it was and returns these totals, to_dict()
\* together with the entry sequence itself.
C27_Totals ==
    /\ [](/\ DOMAIN totals.counts = {entries[i].type : i \in 1..Len(entries)}
          /\ DOMAIN totals.bytes_out = DOMAIN totals.counts
          /\ DOMAIN totals.bytes_in = DOMAIN totals.counts
          /\ \A t \in DOMAIN totals.counts :
                /\ totals.counts[t] = Cardinality(EntriesOf(t))
                /\ totals.bytes_out[t] = SumBytesOut(EntriesOf(t))
                /\ totals.bytes_in[t] = SumBytesIn(EntriesOf(t))
          /\ totals.total_entries = Len(entries)
          /\ SumCounts(totals.counts, DOMAIN totals.counts) = Len(entries))
    /\ [](ret.op = "totals" => ret.value = totals)
    /\ [](ret.op = "to_dict" =>
            ret.value.entries = entries /\ ret.value.totals = totals)
    /\ [][ret'.op \in {"totals", "to_dict"} => UNCHANGED entries]_vars

\* totals() was read on a ledger with two entries of one category that both
\* carry bytes
C27_Witness ==
    /\ ret.op = "totals"
    /\ Len(entries) = 2
    /\ entries[1].type = entries[2].type
    /\ ret.value.counts[entries[1].type] = 2
    /\ entries[1].bytes_out + entries[1].bytes_in > 0
    /\ entries[2].bytes_out + entries[2].bytes_in > 0

\* the later of two times
Later(a, b) == IF a >= b THEN a ELSE b

\* every wait() returned at least one interval after the one before it
ReleasesPaced ==
    \A i \in 1..(Len(releases) - 1) : releases[i + 1] - releases[i] >= interval

\* C28: every wait() returns no earlier than the mark it found and sets the
\* mark to max(current time, mark) + 60/N; the mark never moves backwards;
\* the times at which two consecutive calls of wait() return are at least
\* 60/N apart.
C28_Pacing_AsStated ==
    /\ [][next_time' >= next_time]_vars
    /\ [][Len(releases') > Len(releases) =>
            /\ now >= next_time
            /\ next_time' = Later(now, next_time) + interval]_vars
    /\ []ReleasesPaced

\* the part of C28 the limiter keeps: a wait() returns no earlier than the
\* mark it found, and every return moves the mark forward by at least 60/N
C28_MarkAdvances ==
    /\ [][next_time' >= next_time]_vars
    /\ [][Len(releases') > Len(releases) =>
            /\ now >= next_time
            /\ next_time' >= next_time + interval]_vars

\* the tasks inside the critical section of wait()
InsideWait == {t \in Tasks : tasks[t].pc = "sleep"}

\* at most one task is inside wait(), and it is the holder of the lock
OneInsideWait ==
    /\ Cardinality(InsideWait) <= 1
    /\ \A t \in Tasks : tasks[t].pc = "sleep" <=> lock = t

\* the tasks to which wait() has returned
ReleasedTasks == {t \in Tasks : tasks[t].pc = "released"}

\* C29: with tasks calling wait() concurrently, the read of the mark, the
\* sleep and the advance of the mark are one critical section that one task
\* at a time is in, and callers that called at the same time are released
\* at distinct times, any two of them at least 60/N apart.
C29_Concurrent_AsStated ==
    /\ OneInsideWait
    /\ \A t, u \in ReleasedTasks :
        (t # u /\ tasks[t].asked = tasks[u].asked) =>
            \/ tasks[t].released_at - tasks[u].released_at >= interval
            \/ tasks[u].released_at - tasks[t].released_at >= interval

\* the part of C29 the lock keeps: one task at a time is inside wait(), the
\* tasks get the lock in the order they asked, and every release moves the
\* mark forward by at least 60/N
C29_CriticalSection ==
    /\ []OneInsideWait
    /\ [][\A t \in Tasks :
            (tasks[t].pc = "queued" /\ tasks'[t].pc # "queued")
                => lock = NoTask /\ Head(waiters) = t]_vars
    /\ [][Len(releases') > Len(releases) =>
            /\ Len(releases') = Len(releases) + 1
            /\ now >= next_time
            /\ next_time' >= next_time + interval]_vars

\* the task whose call of request a step runs
Requesting(t) == tasks[t].pc = "start" /\ tasks'[t].pc # "start"

\* C30: with tasks issuing requests concurrently through one guard, the
\* counters never exceed their ceilings; every step that changes a counter
\* is the call of request of exactly one task, and a step that debits the
\* budgets finds, in the state it starts from, the total, the per-host count
\* of its host and the window count below their ceilings, and adds one to
\* each.
C30_AtomicAdmission ==
    /\ [](/\ target_http_total <= max_target_http_requests_total
          /\ \A h \in DOMAIN target_http_per_host :
                target_http_per_host[h] <= max_target_http_per_host
          /\ minute_count <= max_target_http_per_minute)
    /\ [][httpCounters' # httpCounters =>
            \E t \in Tasks :
                /\ Requesting(t)
                /\ \A u \in Tasks \ {t} : tasks'[u] = tasks[u]]_vars
    /\ [][target_http_total' # target_http_total =>
            \E t \in Tasks :
                /\ Requesting(t)
                /\ tasks'[t].error = NoError
                /\ ~TotalBudgetSpent
                /\ ~PerHostBudgetSpent(Lower(urlparse_hostname(tasks'[t].url)))
                /\ ~MinuteBudgetSpent
                /\ target_http_total' = target_http_total + 1
                /\ target_http_per_host'[Lower(urlparse_hostname(tasks'[t].url))] =
                      PerHostCount(Lower(urlparse_hostname(tasks'[t].url))) + 1
                /\ minute_count' = MinuteCountAtCheck + 1]_vars

\* with a total ceiling of two, a third target request was refused for the
\* total budget while the task of the second one was still sleeping inside
\* wait()
C30_Witness ==
    /\ max_target_http_requests_total = 2
    /\ target_http_total = 2
    /\ \E t, v \in Tasks :
        /\ tasks[t].pc = "sleep"
        /\ classify_http(tasks[t].url) = "target_http"
        /\ tasks[v].pc = "rejected"
        /\ tasks[v].error = ErrTotal

\* the rules of enforce_http_request for a target request, in the order the
\* claim gives them: the error that names each
RuleNames ==
    <<{ErrPassive}, {ErrRedirects}, {ErrMethod}, {ErrTotal}, {ErrPerHost},
      {ErrPerMinute}, {ErrScope}, {ErrResolve, ErrNonPublic}>>

\* the request (method, url) with the lookup result res violates rule i
ViolatesRule(i, method, url, res) ==
    LET host == Lower(urlparse_hostname(url))
    IN  CASE i = 1 -> mode = "passive"
          [] i = 2 -> max_redirects # 0
          [] i = 3 -> method \notin GetOrHead
          [] i = 4 -> target_http_total >= max_target_http_requests_total
          [] i = 5 -> PerHostCount(host) >= max_target_http_per_host
          [] i = 6 -> (IF now - minute_window_start >= 60 THEN 0 ELSE minute_count)
                        >= max_target_http_per_minute
          [] i = 7 -> ~(host = domain \/ EndsWith(host, <<".">> \o domain))
          [] i = 8 -> ~AllPublic(res)

\* the rules a request violates
RulesViolated(method, url, res) ==
    {i \in 1..Len(RuleNames) : ViolatesRule(i, method, url, res)}

\* the least element of a non-empty set of numbers
Least(S) == CHOOSE i \in S : \A j \in S : i <= j

\* C32: the errors of the rules are pairwise different texts; a target
\* request that violates no rule is approved, one that violates some rules is
\* rejected with the error of the first of them in the order passive mode,
\* redirects, method, total budget, per-host budget, per-minute budget, scope,
\* resolution; and the last call made was answered that way.
C32_FirstRuleReported ==
    /\ \A i, j \in 1..Len(RuleNames) : i # j => RuleNames[i] \cap RuleNames[j] = {}
    /\ \A i \in 1..Len(RuleNames) : NoError \notin RuleNames[i]
    /\ \A m \in Methods, u \in InScopeUrls, r \in Resolutions :
        LET V == RulesViolated(m, u, r)
        IN  IF V = {} THEN HttpError(m, u, r) = NoError
            ELSE HttpError(m, u, r) \in RuleNames[Least(V)]
    /\ (ret.op = "enforce_http_request" /\ ret.error = NoError
            /\ ret.value = "target_http")
        => /\ mode # "passive"
           /\ max_redirects = 0
           /\ target_http_total <= max_target_http_requests_total

\* a target request that was over the total budget, over the per-host budget
\* and over the per-minute budget at once was rejected for the total budget
C32_Witness ==
    /\ ret = Raised("enforce_http_request", ErrTotal)
    /\ 4 \in RulesViolated("GET", ApexUrl, [oserror |-> TRUE, infos |-> <<>>])
    /\ 5 \in RulesViolated("GET", ApexUrl, [oserror |-> TRUE, infos |-> <<>>])
    /\ 6 \in RulesViolated("GET", ApexUrl, [oserror |-> TRUE, infos |-> <<>>])

\* a step of the client that is one transport attempt
AttemptStep == http.pc = "send" /\ http' # http

\* the order of the steps of a request that the client keeps: a request
\* enters the retry loop only when the guard admitted it, every transport
\* attempt is made by a request that has just come out of wait(), wait()
\* advances the mark, and only an attempt calls the transport
StepsInOrder ==
    /\ (http.pc = "idle" /\ http'.pc # "idle") =>
            /\ http'.pc = "wait"
            /\ ret' = Returned("request", "admitted")
    /\ (http.pc # "send" /\ http'.pc = "send") =>
            /\ http.pc \in {"wait", "sleep"}
            /\ now >= next_time
            /\ next_time' >= next_time + interval
    /\ AttemptStep =>
            /\ stream_calls'[Lower(urlparse_hostname(http.url))]
                    = StreamCalls(Lower(urlparse_hostname(http.url))) + 1
            /\ http'.pc \in {"idle", "backoff"}
    /\ stream_calls' # stream_calls => AttemptStep
    /\ (http.pc = "backoff" /\ http'.pc # "backoff") => http'.pc \in {"wait", "idle"}

\* C33: for every request through the client the steps come in the order
\* admission, rate-limiter wait, transport call, ledger append, return or
\* raise: the limiter is waited on before every transport attempt, no
\* transport call is made for a request the guard did not admit, and every
\* transport attempt appends its ledger entry before the request returns,
\* raises or retries.
C33_StepOrder_AsStated ==
    [][/\ StepsInOrder
       /\ AttemptStep =>
            /\ Len(entries') = Len(entries) + 1
            /\ Appended.type = http.category]_vars

\* the part of C33 the client keeps: the order of the steps, and the ledger
\* entry of every attempt that does not end on the byte cap
C33_StepOrderKept ==
    [][/\ StepsInOrder
       /\ (AttemptStep /\ ret' # Raised("request", ErrByteCap)) =>
            /\ Len(entries') = Len(entries) + 1
            /\ Appended.type = http.category]_vars

\* C35: the byte cap is a policy violation and never a transport error: the
\* attempt it stops ends the request at once and raises the violation to the
\* caller, whatever the retries left; the request never goes to the backoff
\* sleep for it, no further attempt is made, and the only failure ever
\* waited on or recorded as the error of an attempt is the transport's.
C35_ByteCapFatal ==
    /\ [](http.pc = "backoff" => http.last_exc = ErrTransport)
    /\ [](\A i \in 1..Len(entries) : entries[i].error # ErrByteCap)
    /\ [][(ret' = Raised("request", ErrByteCap) /\ ret' # ret) => AttemptStep]_vars
    /\ [][(AttemptStep /\ ret' = Raised("request", ErrByteCap)) =>
            /\ http' = Idle
            /\ stream_calls'[Lower(urlparse_hostname(http.url))]
                    = StreamCalls(Lower(urlparse_hostname(http.url))) + 1
            /\ UNCHANGED <<next_time, httpCounters>>]_vars

\* with one retry left, the first attempt of a request hit the byte cap and
\* the request ended there, after one call of the transport
C35_Witness ==
    /\ retries = 1
    /\ ret = Raised("request", ErrByteCap)
    /\ http = Idle
    /\ operations = 1
    /\ \E h \in DOMAIN stream_calls : stream_calls[h] = 1
    /\ \A h \in DOMAIN stream_calls : stream_calls[h] <= 1

\* a transport attempt that ended on a transport error
FailedAttemptStep == AttemptStep /\ http'.pc = "backoff"

\* C36: the ledger entry of an attempt that a transport error interrupted
\* carries the error text and, as bytes_in, the bytes of the body received
\* before the error.
C36_PartialBytes_AsStated ==
    [][FailedAttemptStep =>
        /\ Len(entries') = Len(entries) + 1
        /\ Appended.error = ErrTransport
        /\ Appended.bytes_in = content']_vars

\* what the client records for such an attempt: the error text, no status,
\* and bytes_in = 0 whatever was received
C36_ErrorEntry ==
    [][FailedAttemptStep =>
        /\ Len(entries') = Len(entries) + 1
        /\ Appended.error = ErrTransport
        /\ Appended.status = "None"
        /\ Appended.bytes_in = 0]_vars

\* the approvals from the i-th to the j-th fall in a span shorter than 60 s
WithinAMinute(i, j) == approvals[j] - approvals[i] < 60

\* C34: the window is fixed, not sliding: a new window starts only 60 seconds
\* or more after the start of the one before, no window holds more than
\* max_target_http_per_minute approvals, and the approvals that fall in any
\* span shorter than 60 seconds are never more than twice that ceiling
\* (they can be more than the ceiling when the span crosses the start of a
\* window, as the witness shows).
C34_FixedWindow ==
    /\ [](\A i, j \in 1..Len(approvals) :
            (i <= j /\ WithinAMinute(i, j))
                => j - i + 1 <= 2 * max_target_http_per_minute)
    /\ [](Cardinality({i \in 1..Len(approvals) :
                            approvals[i] >= minute_window_start})
            <= max_target_http_per_minute)
    /\ [](minute_count <= max_target_http_per_minute)
    /\ [][minute_window_start' # minute_window_start =>
            /\ minute_window_start' = now
            /\ minute_window_start' >= minute_window_start + 60]_vars

\* with a ceiling of one approval per minute, two approvals lie 30 seconds
\* apart, one before and one after the start of the second window
C34_Witness ==
    /\ max_target_http_per_minute = 1
    /\ Len(approvals) = 2
    /\ approvals[2] - approvals[1] = 30
    /\ approvals[1] < minute_window_start
    /\ approvals[2] >= minute_window_start

\* a step in which enforce_http_request rejected a request
RejectedCallStep ==
    /\ CallStep
    /\ ret'.op = "enforce_http_request"
    /\ ret'.error # NoError

\* the hosts of the URLs the callers ask for
HostsAsked == {Lower(urlparse_hostname(u)) : u \in Urls}

\* target_http_total and every per-host count are what they were
CountsKept ==
    /\ target_http_total' = target_http_total
    /\ \A h \in HostsAsked \cup DOMAIN target_http_per_host' :
        (IF h \in DOMAIN target_http_per_host'
         THEN target_http_per_host'[h] ELSE 0) = PerHostCount(h)

\* C37 as stated: a rejected enforce_http_request leaves target_http_total,
\* every per-host count, the start of the minute window and the count of the
\* minute window as they were, whichever rule rejected it.
C37_AsStated ==
    [][RejectedCallStep =>
        /\ CountsKept
        /\ UNCHANGED <<minute_window_start, minute_count>>]_vars

\* the rejections raised after the window was looked at
AfterWindow == {ErrPerMinute, ErrScope, ErrResolve, ErrNonPublic}

\* C37 as amended: a rejected enforce_http_request leaves target_http_total
\* and every per-host count as they were, whichever rule rejected it; it
\* leaves the minute window as it was too, except when the rejection comes
\* from the per-minute, scope or resolution rule 60 seconds or more after the
\* window start: then the window restarts at the time of the call with a
\* count of zero.
C37_RejectionFrame ==
    [][RejectedCallStep =>
        /\ CountsKept
        /\ IF ret'.error \in AfterWindow /\ now - minute_window_start >= 60
           THEN minute_window_start' = now /\ minute_count' = 0
           ELSE UNCHANGED <<minute_window_start, minute_count>>]_vars

\* a request was rejected by the resolution rule 60 seconds or more after
\* the start of a window in which a request had been approved: the window
\* was restarted, the counters of the approval are still there
C37_Witness ==
    /\ ret.op = "enforce_http_request"
    /\ ret.error \in {ErrResolve, ErrNonPublic}
    /\ target_http_total = 1
    /\ minute_count = 0
    /\ minute_window_start = now
    /\ now >= 60

\* C38: in every reachable state of the guard the per-host counts add up to
\* target_http_total, no count is negative, and the count of the minute
\* window is at most target_http_total.
C38_CountersAgree ==
    /\ SumCounts(target_http_per_host, DOMAIN target_http_per_host)
            = target_http_total
    /\ \A h \in DOMAIN target_http_per_host : target_http_per_host[h] >= 0
    /\ minute_count >= 0
    /\ minute_count <= target_http_total

\* two requests were approved, one to each of two hosts, the second in a
\* later window than the first
C38_Witness ==
    /\ target_http_total = 2
    /\ minute_count = 1
    /\ \E g, h \in DOMAIN target_http_per_host :
        /\ g # h
        /\ target_http_per_host[g] = 1
        /\ target_http_per_host[h] = 1

\* the errors enforce_dns_query raises
DnsGuardErrors == {ErrDnsNone, ErrDnsBudget, ErrDnsMinimal}

\* C39: with a policy, the resolver is called once for every query the guard
\* approves, whether the lookup then succeeds or fails, and not at all for a
\* query it rejects: every resolve_records either is rejected and leaves the
\* number of resolver calls and target_dns_total as they were, or adds one to
\* both, so that after any sequence of resolve_records calls the two are
\* equal.
C39_ResolverPerApproval ==
    /\ [](resolver_calls = target_dns_total)
    /\ [][LookupStep =>
            IF Appended.error \in DnsGuardErrors
            THEN UNCHANGED <<resolver_calls, target_dns_total>>
            ELSE /\ resolver_calls' = resolver_calls + 1
                 /\ target_dns_total' = target_dns_total + 1]_vars
    /\ [][resolver_calls' # resolver_calls => LookupStep]_vars

\* a lookup that the guard approved failed in the resolver, and the next
\* query was rejected by the guard: the resolver was called once
C39_Witness ==
    /\ Len(entries) = 2
    /\ entries[1].error = ErrLookup
    /\ entries[2].error \in DnsGuardErrors
    /\ resolver_calls = 1
    /\ target_dns_total = 1


\* ---- C31
RunEnded == pipeline.pc \in {"raised", "returned"}
InTry == pipeline.pc \in {"call", "running"}
FileNames == [i \in 1..Len(pipeline.files) |-> pipeline.files[i].name]

\* C31: once run_pipeline has built its clients, every way out of the module
\* sequence leads to the close of the transport; the ledger snapshot and then
\* the manifest are written after the close, and only then; a run that has
\* ended has closed the transport and written network_ledger.json, holding
\* the ledger as it is at the end, and run_manifest.json, in that order; the
\* transport is not used once it is closed.
C31_GuaranteedCleanup ==
    /\ [](RunEnded =>
            /\ pipeline.closed
            /\ FileNames = <<"network_ledger.json", "run_manifest.json">>
            /\ pipeline.files[1].data = to_dict
            /\ pipeline.files[2].data =
                    [budgets |-> budgets, ledger_totals |-> totals])
    /\ [](pipeline.pc # "not_run" =>
            /\ (pipeline.files # <<>> => pipeline.closed)
            /\ (pipeline.closed => http.pc = "idle")
            /\ (pipeline.closed <=>
                    pipeline.pc \in {"write_ledger", "write_manifest",
                                     "raised", "returned"}))
    /\ [][(InTry /\ ~InTry') =>
            (pipeline'.pc = "close" /\ ~pipeline'.closed
                /\ pipeline'.files = <<>>)]_vars
    /\ [][(pipeline.pc # "not_run" /\ pipeline.closed) =>
            (/\ entries' = entries
             /\ stream_calls' = stream_calls
             /\ pipeline'.closed)]_vars

\* a run that the call of doc_signals.run ended, after requests were
\* recorded: the transport is closed and both files are written
C31_Witness ==
    /\ pipeline.pc = "raised"
    /\ pipeline.exc = "TypeError"
    /\ pipeline.closed
    /\ Len(pipeline.files) = 2
    /\ Len(entries) > 0

\* ---- C40
ModuleNames == [i \in 1..Len(pipeline.modules) |-> pipeline.modules[i].module]

\* C40 (as stated): the modules run in the fixed order and an exception never
\* stops the modules after it, so a run that no KeyboardInterrupt or
\* cancellation interrupted ends with the results of all seven modules, and
\* the only thing that leaves the module sequence early is such an
\* interruption.
C40_ModuleSequence_AsStated ==
    /\ [](RunEnded /\ pipeline.exc # "BaseException" =>
            ModuleNames = ModuleOrder)
    /\ [][(InTry /\ pipeline'.exc # "none") =>
            pipeline'.exc = "BaseException"]_vars

\* what the source keeps of C40: the results are appended in the fixed order,
\* one step at a time, an Exception raised by the body of a module becomes a
\* result with status error, and the next module is called after it.
C40_OrderKept ==
    /\ [](pipeline.pc # "not_run" =>
            /\ ModuleNames = SubSeq(ModuleOrder, 1, Len(pipeline.modules))
            /\ (InTry => pipeline.index = Len(pipeline.modules) + 1))
    /\ [][(pipeline.pc = "running" /\ pipeline' # pipeline
            /\ pipeline'.exc = "none") =>
            (/\ Len(pipeline'.modules) = Len(pipeline.modules) + 1
             /\ pipeline'.modules[Len(pipeline'.modules)].module =
                    ModuleOrder[pipeline.index]
             /\ pipeline'.pc = "call"
             /\ pipeline'.index = pipeline.index + 1)]_vars

\* the run ended by the TypeError of the call of doc_signals.run, with six
\* results of which an earlier one is an error that did not stop the run
C40_Witness ==
    /\ pipeline.pc = "raised"
    /\ pipeline.exc = "TypeError"
    /\ Len(pipeline.modules) = 6
    /\ pipeline.modules[3].status = "error"
    /\ pipeline.modules[4].status = "ok"

====
